---- MODULE Spec2Model ----
(***************************************************************************)
(* SpeakNode: graph store (core/db/kuzu_manager.py), ingestion pipeline    *)
(* (core/pipeline.py), read-only Cypher search (core/agent/hybrid_rag.py), *)
(* agent orchestrator and tool registry (core/agent), and the HTTP         *)
(* server's per-dataset locking (interfaces/api_server/server.py).         *)
(*                                                                         *)
(* Strings are sequences of one-character strings.  Each component has its *)
(* own variables and its own specification; a specification leaves the     *)
(* variables of the other components unchanged.                            *)
(***************************************************************************)
EXTENDS Integers, Sequences, FiniteSets, TLC

VARIABLES
    \* ---- scoped keys (kuzu_manager.py:15-40)
    sv_meeting_id,   \* build_scoped_value's meeting_id argument ("" and None are <<>>)
    sv_value,        \* build_scoped_value's value argument
    sv_key,          \* the scoped key returned by build_scoped_value
    sv_plain,        \* decode_scoped_value(sv_key)
    sv_scope,        \* extract_scope_from_value(sv_key)
    sv_pc,           \* "input" -> "built" -> "decoded" -> "extracted"
    \* ---- graph store (kuzu_manager.py) and pipeline (pipeline.py)
    db,              \* the node and relationship tables a read on the connection sees
    st_last,         \* what the last call on the store was and how it ended
    st_calls,        \* number of calls made so far
    \* ---- HTTP server (server.py)
    sr_req,          \* per request: endpoint, dataset id, position, lock object held or awaited
    sr_arrived,      \* number of requests received so far
    sr_chat_locks,   \* _chat_locks: dataset id -> lock object (0: no entry)
    sr_next_lock,    \* identity of the next asyncio.Lock() object created
    sr_locked,       \* the lock objects whose _locked flag is set
    sr_waiters,      \* per lock object, the queue of requests awaiting it
    sr_exists,       \* per dataset id, os.path.exists(db_path)
    sr_running,      \* the request occupying the event loop inside its critical section (0: none)
    sr_reset,        \* per dataset id: a reset_chat has completed and no create_chat,
                     \* analyze_audio or import_graph has run its critical section since
    \* ---- natural-language-to-query search (hybrid_rag.py:126-162)
    cy_raw,          \* the "query" value of the language model's JSON output
    cy_limit,        \* cypher_search's limit argument
    cy_pc,           \* "input" -> "done"
    cy_generated,    \* the query returned by _generate_cypher (None when it raised)
    cy_executed,     \* the query strings passed to execute_cypher, in order
    cy_result,       \* the dict returned by cypher_search
    cy_fault,        \* the step of cypher_search that raised: none, generate, execute
    \* ---- agent turn (agent.py, tools/__init__.py)
    ag_pc,           \* "Idle" -> "Started" -> "Routed" -> "Executed" -> "Synthesized" -> "Done"
    ag_history,      \* query's chat_history argument
    ag_question,     \* query's user_question argument
    ag_state,        \* the AgentState passed from node to node
    ag_router,       \* what router_node received from the model and whether it raised
    ag_exec,         \* what ToolRegistry.execute was called with and how it ended
    ag_node,         \* the node of the compiled graph that runs next; none outside graph.invoke
    ag_trace,        \* the nodes that ran in this turn, in order
    ag_outcome,      \* how query ended: returned value or propagated exception
    \* ---- schema initialization (kuzu_manager.py:44-67, 106-141); acts on db
    sc_tables,       \* the node and relationship tables that exist in the database
    sc_runs,         \* number of times a KuzuManager was opened on the database
    sc_first,        \* the tables that existed after the first run
    sc_last,         \* the last run: whether it raised, tables and rows before it
    \* ---- documents sharing topic titles (kuzu_manager.py:527-675, 677-715); acts on db
    dc_ingested,     \* the topics ingested so far: document id, plain title, summary,
                     \* and whether the document's Meeting existed at that time
    dc_calls,        \* number of store calls made so far
    \* ---- PATCH /nodes/update (server.py:424-490); acts on db
    pt_exists,       \* whether the chat's database file exists
    pt_last,         \* the last request, the store before it and the response
    pt_calls,        \* number of requests handled so far
    \* ---- fusion search and the registered tools (hybrid_rag.py, agent/tools); act on db
    tl_last,         \* the last call: its arguments, the store before it, its result
    tl_calls,        \* number of calls made so far
    \* ---- embedding model cache (embedding.py:22-39)
    em_pc,           \* per thread, its position in get_embedder
    em_arg,          \* per thread, the model_name it was called with
    em_cache,        \* _cache: model name -> instance (0: no entry)
    em_lock,         \* the thread holding _lock (0: free)
    em_built,        \* per model name, the instances constructed so far
    em_ret,          \* per thread, the instance get_embedder returned (0: not yet)
    \* ---- ingestion of documents (kuzu_manager.py:143-208, 527-684); acts on db
    ig_last,         \* the last call: its arguments, the store before it, whether it raised
    ig_made,         \* the utterance id of every segment of every successful
                     \* ingest_transcript call, with its document, position and start
    ig_calls         \* number of calls made so far

scopedVars == <<sv_meeting_id, sv_value, sv_key, sv_plain, sv_scope, sv_pc>>
storeVars == <<db, st_last, st_calls>>

serverVars ==
    <<sr_req, sr_arrived, sr_chat_locks, sr_next_lock, sr_locked, sr_waiters, sr_exists,
      sr_running, sr_reset>>

cypherVars == <<cy_raw, cy_limit, cy_pc, cy_generated, cy_executed, cy_result, cy_fault>>

agentVars ==
    <<ag_pc, ag_history, ag_question, ag_state, ag_router, ag_exec, ag_outcome, ag_node, ag_trace>>

schemaVars == <<sc_tables, sc_runs, sc_first, sc_last>>
docsVars == <<dc_ingested, dc_calls>>
patchVars == <<pt_exists, pt_last, pt_calls>>
toolsVars == <<tl_last, tl_calls>>
embedVars == <<em_pc, em_arg, em_cache, em_lock, em_built, em_ret>>
ingestVars == <<ig_last, ig_made, ig_calls>>

vars ==
    <<scopedVars, storeVars, serverVars, cypherVars, agentVars, schemaVars, docsVars, patchVars,
      toolsVars, embedVars, ingestVars>>

(***************************************************************************)
(* Generic string helpers                                                  *)
(***************************************************************************)

\* All sequences over S of length at most n.
SeqsUpTo(S, n) == UNION {[1..k -> S] : k \in 0..n}

\* str.strip() / lstrip / rstrip over the whitespace characters of the alphabet.
IsSpace(c) == c \in {" ", "\t"}

RECURSIVE lstrip(_)
lstrip(s) == IF s # <<>> /\ IsSpace(Head(s)) THEN lstrip(Tail(s)) ELSE s

RECURSIVE rstrip(_)
rstrip(s) ==
    IF s # <<>> /\ IsSpace(s[Len(s)]) THEN rstrip(SubSeq(s, 1, Len(s) - 1)) ELSE s

strip(s) == lstrip(rstrip(s))

\* s.startswith(p)
startswith(s, p) == Len(s) >= Len(p) /\ SubSeq(s, 1, Len(p)) = p

\* s.find(sub): the first (1-based) index at which sub occurs in s, 0 if none.
find(s, sub) ==
    LET hits == {i \in 1..(Len(s) - Len(sub) + 1) : SubSeq(s, i, i + Len(sub) - 1) = sub}
    IN  IF hits = {} THEN 0 ELSE CHOOSE i \in hits : \A j \in hits : i <= j

\* sub in s
contains(s, sub) == find(s, sub) # 0

\* str(n) for n >= 0.
DigitChars == <<"0", "1", "2", "3", "4", "5", "6", "7", "8", "9">>
RECURSIVE Str(_)
Str(n) == IF n < 10 THEN <<DigitChars[n + 1]>> ELSE Str(n \div 10) \o <<DigitChars[(n % 10) + 1]>>

\* f"{n:0{width}d}" for n >= 0: zeros in front up to the width, no cut.
ZeroPad(n, width) ==
    [i \in 1..(IF Len(Str(n)) < width THEN width - Len(Str(n)) ELSE 0) |-> "0"] \o Str(n)

(***************************************************************************)
(* Scoped keys: kuzu_manager.py:12-40                                      *)
(***************************************************************************)

SCOPED_VALUE_SEPARATOR == <<":", ":">>

\* Faulty variants of build_scoped_value: one that forgets the empty-scope case,
\* one that does not normalise the text.
build_scoped_value_always_prefixed(meeting_id, value) ==
    LET clean == strip(value)
    IN  IF clean = <<>> THEN <<>> ELSE meeting_id \o SCOPED_VALUE_SEPARATOR \o clean

\* A faulty variant of build_scoped_value: the document id is left out of the key.
build_scoped_value_unscoped(meeting_id, value) == strip(value)

\* kuzu_manager.py:15-22
build_scoped_value(meeting_id, value) ==
    LET clean == strip(value)
    IN  IF clean = <<>> THEN <<>>
        ELSE IF meeting_id = <<>> THEN clean
        ELSE meeting_id \o SCOPED_VALUE_SEPARATOR \o clean

\* A faulty variant of decode_scoped_value: split at the last separator, not the first.
decode_scoped_value_rsplit(value) ==
    LET hits == {i \in 1..(Len(value) - 1) : SubSeq(value, i, i + 1) = SCOPED_VALUE_SEPARATOR}
    IN  IF hits = {} THEN value
        ELSE LET i == CHOOSE k \in hits : \A j \in hits : k >= j
             IN  SubSeq(value, i + 2, Len(value))

\* kuzu_manager.py:25-31   raw.split("::", 1)[1]
decode_scoped_value(value) ==
    LET i == find(value, SCOPED_VALUE_SEPARATOR)
    IN  IF i = 0 THEN value ELSE SubSeq(value, i + Len(SCOPED_VALUE_SEPARATOR), Len(value))

\* kuzu_manager.py:34-40   raw.split("::", 1)[0], kept only when it starts with "m_"
extract_scope_from_value(value) ==
    LET i == find(value, SCOPED_VALUE_SEPARATOR)
        meeting_id == SubSeq(value, 1, i - 1)
    IN  IF i = 0 THEN <<>>
        ELSE IF startswith(meeting_id, <<"m", "_">>) THEN meeting_id ELSE <<>>

(***************************************************************************)
(* Graph store: kuzu_manager.py                                            *)
(*                                                                         *)
(* The store is one set of rows per node table and per relationship table  *)
(* (kuzu_manager.py:109-133).  A handler is translated into the list of    *)
(* statements it sends to the connection, in order; the transaction        *)
(* executes the list up to the first statement that raises.                *)
(***************************************************************************)

NodeTables == {"Person", "Topic", "Task", "Decision", "Utterance", "Meeting", "Entity"}

RelTables ==
    {"PROPOSED", "ASSIGNED_TO", "RESULTED_IN", "SPOKE", "NEXT", "DISCUSSED", "CONTAINS",
     "HAS_TASK", "HAS_DECISION", "RELATED_TO", "MENTIONS", "HAS_ENTITY"}

\* kuzu_manager.py:111-117: the primary key column of each node table.
PK(table) ==
    CASE table = "Person" -> "name"
      [] table = "Topic" -> "title"
      [] table = "Task" -> "description"
      [] table = "Decision" -> "description"
      [] table = "Utterance" -> "id"
      [] table = "Meeting" -> "id"
      [] table = "Entity" -> "name"

\* The store right after _initialize_schema on a new database: every table empty.
EmptyDb == [t \in NodeTables \cup RelTables |-> {}]

\* The state of the scoped-key variables in the other components' specifications.
ScopedIdle ==
    /\ sv_meeting_id = <<>>
    /\ sv_value = <<>>
    /\ sv_key = <<>>
    /\ sv_plain = <<>>
    /\ sv_scope = <<>>
    /\ sv_pc = "input"

\* The state of the store variables in the other components' specifications.
StoreCallsIdle ==
    /\ st_last = [op |-> "none"]
    /\ st_calls = 0

StoreIdle ==
    /\ db = EmptyDb
    /\ StoreCallsIdle

\* The state of the server variables in the other components' specifications.
ServerIdle ==
    /\ sr_req = <<>>
    /\ sr_arrived = 0
    /\ sr_chat_locks = <<>>
    /\ sr_next_lock = 1
    /\ sr_locked = {}
    /\ sr_waiters = <<>>
    /\ sr_exists = <<>>
    /\ sr_running = 0
    /\ sr_reset = <<>>

\* The state of the query-search variables in the other components' specifications.
CypherIdle ==
    /\ cy_raw = <<>>
    /\ cy_limit = 0
    /\ cy_pc = "input"
    /\ cy_generated = <<>>
    /\ cy_executed = <<>>
    /\ cy_result = [ok |-> FALSE]
    /\ cy_fault = "none"

\* The state of the agent variables in the other components' specifications.
AgentIdle ==
    /\ ag_pc = "Idle"
    /\ ag_history = <<>>
    /\ ag_question = ""
    /\ ag_state = [tool_name |-> ""]
    /\ ag_router = [ran |-> FALSE]
    /\ ag_exec = [ran |-> FALSE]
    /\ ag_node = "none"
    /\ ag_trace = <<>>
    /\ ag_outcome = [kind |-> "none"]

\* The state of the schema variables in the other components' specifications:
\* the database is open, every table exists.
SchemaIdle ==
    /\ sc_tables = NodeTables \cup RelTables
    /\ sc_runs = 0
    /\ sc_first = {}
    /\ sc_last = [raised |-> FALSE]

DocsIdle ==
    /\ dc_ingested = {}
    /\ dc_calls = 0

PatchIdle ==
    /\ pt_exists = TRUE
    /\ pt_last = [status |-> 0]
    /\ pt_calls = 0

ToolsIdle ==
    /\ tl_last = [op |-> "none"]
    /\ tl_calls = 0

IngestIdle ==
    /\ ig_last = [op |-> "none"]
    /\ ig_made = {}
    /\ ig_calls = 0

\* No thread has called get_embedder; the cache is empty.
EmbedIdle ==
    /\ em_pc = <<>>
    /\ em_arg = <<>>
    /\ em_cache = <<>>
    /\ em_lock = 0
    /\ em_built = <<>>
    /\ em_ret = <<>>

\* Each component's specification keeps the other components idle.
notScopedVars == <<storeVars, serverVars, cypherVars, agentVars, schemaVars, docsVars, patchVars, toolsVars, embedVars, ingestVars>>
NotScopedIdle ==
    StoreIdle /\ ServerIdle /\ CypherIdle /\ AgentIdle /\ SchemaIdle /\ DocsIdle /\ PatchIdle /\ ToolsIdle /\ EmbedIdle /\ IngestIdle
notStoreVars == <<scopedVars, serverVars, cypherVars, agentVars, schemaVars, docsVars, patchVars, toolsVars, embedVars, ingestVars>>
NotStoreIdle ==
    ScopedIdle /\ ServerIdle /\ CypherIdle /\ AgentIdle /\ SchemaIdle /\ DocsIdle /\ PatchIdle /\ ToolsIdle /\ EmbedIdle /\ IngestIdle
notServerVars == <<scopedVars, storeVars, cypherVars, agentVars, schemaVars, docsVars, patchVars, toolsVars, embedVars, ingestVars>>
NotServerIdle ==
    ScopedIdle /\ StoreIdle /\ CypherIdle /\ AgentIdle /\ SchemaIdle /\ DocsIdle /\ PatchIdle /\ ToolsIdle /\ EmbedIdle /\ IngestIdle
notCypherVars == <<scopedVars, storeVars, serverVars, agentVars, schemaVars, docsVars, patchVars, toolsVars, embedVars, ingestVars>>
NotCypherIdle ==
    ScopedIdle /\ StoreIdle /\ ServerIdle /\ AgentIdle /\ SchemaIdle /\ DocsIdle /\ PatchIdle /\ ToolsIdle /\ EmbedIdle /\ IngestIdle
notAgentVars == <<scopedVars, storeVars, serverVars, cypherVars, schemaVars, docsVars, patchVars, toolsVars, embedVars, ingestVars>>
NotAgentIdle ==
    ScopedIdle /\ StoreIdle /\ ServerIdle /\ CypherIdle /\ SchemaIdle /\ DocsIdle /\ PatchIdle /\ ToolsIdle /\ EmbedIdle /\ IngestIdle
notSchemaVars == <<scopedVars, st_last, st_calls, serverVars, cypherVars, agentVars, docsVars, patchVars, toolsVars, embedVars, ingestVars>>
NotSchemaIdle ==
    ScopedIdle /\ StoreIdle /\ ServerIdle /\ CypherIdle /\ AgentIdle /\ DocsIdle /\ PatchIdle /\ ToolsIdle /\ EmbedIdle /\ IngestIdle
notDocsVars == <<scopedVars, st_last, st_calls, serverVars, cypherVars, agentVars, schemaVars, patchVars, toolsVars, embedVars, ingestVars>>
NotDocsIdle ==
    ScopedIdle /\ StoreIdle /\ ServerIdle /\ CypherIdle /\ AgentIdle /\ SchemaIdle /\ PatchIdle /\ ToolsIdle /\ EmbedIdle /\ IngestIdle
notPatchVars == <<scopedVars, st_last, st_calls, serverVars, cypherVars, agentVars, schemaVars, docsVars, toolsVars, embedVars, ingestVars>>
NotPatchIdle ==
    ScopedIdle /\ StoreCallsIdle /\ ServerIdle /\ CypherIdle /\ AgentIdle /\ SchemaIdle /\ DocsIdle /\ ToolsIdle /\ EmbedIdle /\ IngestIdle
notToolsVars == <<scopedVars, st_last, st_calls, serverVars, cypherVars, agentVars, schemaVars, docsVars, patchVars, embedVars, ingestVars>>
NotToolsIdle ==
    ScopedIdle /\ StoreCallsIdle /\ ServerIdle /\ CypherIdle /\ AgentIdle /\ SchemaIdle /\ DocsIdle /\ PatchIdle /\ EmbedIdle /\ IngestIdle
notEmbedVars == <<scopedVars, storeVars, serverVars, cypherVars, agentVars, schemaVars, docsVars, patchVars, toolsVars, ingestVars>>
NotEmbedIdle ==
    ScopedIdle /\ StoreIdle /\ ServerIdle /\ CypherIdle /\ AgentIdle /\ SchemaIdle /\ DocsIdle /\ PatchIdle /\ ToolsIdle /\ IngestIdle
notIngestVars == <<scopedVars, st_last, st_calls, serverVars, cypherVars, agentVars, schemaVars, docsVars, patchVars, toolsVars, embedVars>>
NotIngestIdle ==
    ScopedIdle /\ StoreIdle /\ ServerIdle /\ CypherIdle /\ AgentIdle /\ SchemaIdle /\ DocsIdle /\ PatchIdle /\ ToolsIdle /\ EmbedIdle

HasNode(d, table, key) == \E r \in d[table] : r[PK(table)] = key

\* Statement constructors.
\*   MERGE (n:T {pk: k}) ON CREATE SET ...   writes the row only when k is new
\*   MERGE (n:T {pk: k}) SET ...             writes the row, replacing k's old row
\*   MATCH (a:A {pk: x}), (b:B {pk: y}) MERGE (a)-[:R]->(b)
\*   raise                                   the handler's own raise statement
MergeOnCreate(table, row) == [op |-> "MERGE_ON_CREATE", table |-> table, row |-> row]
MergeSet(table, row) == [op |-> "MERGE_SET", table |-> table, row |-> row]
MergeRel(rel, ft, f, tt, t) ==
    [op |-> "MERGE_REL", rel |-> rel, ft |-> ft, f |-> f, tt |-> tt, t |-> t, edge |-> <<f, t>>]
MergeRelTyped(rel, ft, f, tt, t, rtype) ==
    [op |-> "MERGE_REL", rel |-> rel, ft |-> ft, f |-> f, tt |-> tt, t |-> t,
     edge |-> <<f, t, rtype>>]
Raise == [op |-> "RAISE"]

\* conn.execute of one statement.
Execute(d, s) ==
    CASE s.op = "MERGE_ON_CREATE" ->
            IF HasNode(d, s.table, s.row[PK(s.table)]) THEN d
            ELSE [d EXCEPT ![s.table] = @ \cup {s.row}]
      [] s.op = "MERGE_SET" ->
            [d EXCEPT ![s.table] =
                {r \in @ : r[PK(s.table)] # s.row[PK(s.table)]} \cup {s.row}]
      [] s.op = "MERGE_REL" ->
            IF HasNode(d, s.ft, s.f) /\ HasNode(d, s.tt, s.t)
            THEN [d EXCEPT ![s.rel] = @ \cup {s.edge}]
            ELSE d
      [] OTHER -> d

\* The store after the first k statements of stmts.
RECURSIVE ExecuteAll(_, _, _)
ExecuteAll(d, stmts, k) ==
    IF k = 0 THEN d ELSE Execute(ExecuteAll(d, stmts, k - 1), stmts[k])

\* The first statement that raises: the handler's own raise, or the statement at
\* which the store fails (fault; 0: the store does not fail, Len(stmts) + 1: COMMIT
\* fails).  0 when the body runs to its end.
FirstFailure(stmts, fault) ==
    LET bad == {i \in 1..Len(stmts) : stmts[i].op = "RAISE" \/ i = fault}
    IN  IF bad = {} THEN 0 ELSE CHOOSE i \in bad : \A j \in bad : i <= j

\* A faulty variant of _transaction: the except branch re-raises without ROLLBACK.
_transaction_no_rollback(before, stmts, fault) ==
    LET f == FirstFailure(stmts, fault)
        n == IF f = 0 THEN Len(stmts) ELSE f - 1
    IN  [db |-> ExecuteAll(before, stmts, n),
         raised |-> f # 0 \/ fault = Len(stmts) + 1,
         executed |-> n]

\* kuzu_manager.py:91-104.  BEGIN TRANSACTION; the body; COMMIT.  When the body or
\* COMMIT raises, ROLLBACK discards every write since BEGIN and the exception is
\* re-raised.  (When the store has already aborted the transaction on the failing
\* statement, ROLLBACK itself raises; that error is logged and swallowed and the
\* writes are gone all the same.)
_transaction(before, stmts, fault) ==
    LET f == FirstFailure(stmts, fault)
        n == IF f = 0 THEN Len(stmts) ELSE f - 1
        body == ExecuteAll(before, stmts, n)
    IN  IF f = 0 /\ fault # Len(stmts) + 1
        THEN [db |-> body, raised |-> FALSE, executed |-> n]
        ELSE [db |-> before, raised |-> TRUE, executed |-> n]

\* ---- create_meeting: kuzu_manager.py:677-684 (one auto-committed statement)
create_meeting(d, meeting_id, title, date, source_file, fault) ==
    IF fault # 0 THEN [db |-> d, raised |-> TRUE, executed |-> 0]
    ELSE [db |-> Execute(d, MergeOnCreate("Meeting",
                    [id |-> meeting_id, title |-> title, date |-> date,
                     source_file |-> source_file])),
          raised |-> FALSE, executed |-> 1]

\* ---- ingest_transcript: kuzu_manager.py:143-208
STR_global == <<"g", "l", "o", "b", "a", "l">>
STR_Unknown == <<"U", "n", "k", "n", "o", "w", "n">>
STR_Member == <<"M", "e", "m", "b", "e", "r">>

\* An optional argument or key is a sequence of no or one value.
None == <<>>
Some(x) == <<x>>

\* A faulty variant of u_id: the scope is left out of the id.
u_id_unscoped(meeting_id, i, start) ==
    <<"u", "_">> \o ZeroPad(i, 6) \o <<"_">> \o ZeroPad(start * 1000, 10)

\* kuzu_manager.py:162-163: f"u_{scope}_{i:06d}_{int(start * 1000):010d}"
u_id(meeting_id, i, start) ==
    <<"u", "_">> \o (IF meeting_id # <<>> THEN meeting_id ELSE STR_global) \o <<"_">>
        \o ZeroPad(i, 6) \o <<"_">> \o ZeroPad(start * 1000, 10)

\* kuzu_manager.py:177  seg.get('speaker', 'Unknown')
SpeakerOf(seg) == IF seg.speaker = None THEN STR_Unknown ELSE seg.speaker[1]

\* config.py:40 (embedding_dim: int = 384), scaled down.
embedding_dim == 2

\* kuzu_manager.py:403: [0.0] * self.config.embedding_dim
ZeroVector == [i \in 1..embedding_dim |-> 0]

\* A vector of the embedding model, of the configured dimension.
AVector == [i \in 1..embedding_dim |-> 1]

\* A faulty variant of SegmentStatements: a missing embedding is replaced by a zero
\* vector instead of raising.
SegmentStatements_zero_vector(segments, embeddings, meeting_id, i) ==
    LET seg == segments[i + 1]
        uid == u_id(meeting_id, i, seg.start)
        previous_id == IF i = 0 THEN None ELSE Some(u_id(meeting_id, i - 1, segments[i].start))
        vector == IF embeddings = None \/ i >= Len(embeddings[1]) THEN ZeroVector
                  ELSE embeddings[1][i + 1]
    IN  <<MergeOnCreate("Utterance",
            [id |-> uid, text |-> strip(seg.text), startTime |-> seg.start,
             endTime |-> seg.end, embedding |-> vector]),
          MergeOnCreate("Person", [name |-> SpeakerOf(seg), role |-> STR_Member]),
          MergeRel("SPOKE", "Person", SpeakerOf(seg), "Utterance", uid)>>
        \o (IF previous_id # None
            THEN <<MergeRel("NEXT", "Utterance", previous_id[1], "Utterance", uid)>>
            ELSE <<>>)
        \o (IF meeting_id # <<>>
            THEN <<MergeRel("CONTAINS", "Meeting", meeting_id, "Utterance", uid)>>
            ELSE <<>>)

\* A faulty variant of SegmentStatements: no NEXT edge from the previous utterance.
SegmentStatements_no_next(segments, embeddings, meeting_id, i) ==
    LET seg == segments[i + 1]
        uid == u_id(meeting_id, i, seg.start)
    IN  IF embeddings = None \/ embeddings[1] = <<>> \/ i >= Len(embeddings[1])
        THEN <<Raise>>
        ELSE <<MergeOnCreate("Utterance",
                 [id |-> uid, text |-> strip(seg.text), startTime |-> seg.start,
                  endTime |-> seg.end, embedding |-> embeddings[1][i + 1]]),
               MergeOnCreate("Person", [name |-> SpeakerOf(seg), role |-> STR_Member]),
               MergeRel("SPOKE", "Person", SpeakerOf(seg), "Utterance", uid)>>
             \o (IF meeting_id # <<>>
                 THEN <<MergeRel("CONTAINS", "Meeting", meeting_id, "Utterance", uid)>>
                 ELSE <<>>)

\* kuzu_manager.py:158-200: the statements of loop iteration i (0-based).
SegmentStatements(segments, embeddings, meeting_id, i) ==
    LET seg == segments[i + 1]
        uid == u_id(meeting_id, i, seg.start)
        previous_id == IF i = 0 THEN None ELSE Some(u_id(meeting_id, i - 1, segments[i].start))
    IN  IF embeddings = None \/ embeddings[1] = <<>> \/ i >= Len(embeddings[1])
        THEN <<Raise>>
        ELSE <<MergeOnCreate("Utterance",
                 [id |-> uid, text |-> strip(seg.text), startTime |-> seg.start,
                  endTime |-> seg.end, embedding |-> embeddings[1][i + 1]]),
               MergeOnCreate("Person", [name |-> SpeakerOf(seg), role |-> STR_Member]),
               MergeRel("SPOKE", "Person", SpeakerOf(seg), "Utterance", uid)>>
             \o (IF previous_id # None
                 THEN <<MergeRel("NEXT", "Utterance", previous_id[1], "Utterance", uid)>>
                 ELSE <<>>)
             \o (IF meeting_id # <<>>
                 THEN <<MergeRel("CONTAINS", "Meeting", meeting_id, "Utterance", uid)>>
                 ELSE <<>>)

RECURSIVE TranscriptStatements(_, _, _, _)
TranscriptStatements(segments, embeddings, meeting_id, n) ==
    IF n = 0 THEN <<>>
    ELSE TranscriptStatements(segments, embeddings, meeting_id, n - 1)
            \o SegmentStatements(segments, embeddings, meeting_id, n - 1)

\* kuzu_manager.py:143-208.  embeddings is None or Some(list).
ingest_transcript(d, segments, embeddings, meeting_id, fault) ==
    IF embeddings # None /\ Len(embeddings[1]) # Len(segments)
    THEN [db |-> d, raised |-> TRUE, executed |-> 0]
    ELSE _transaction(d,
            TranscriptStatements(segments, embeddings, meeting_id, Len(segments)), fault)

\* ---- normalize_task_status: utils.py:18-42
ALLOWED_TASK_STATUSES == {"pending", "in_progress", "done", "blocked"}

\* utils.py:24-30
_TASK_STATUS_ALIASES(status) ==
    CASE status = "to do" -> "pending"
      [] status = "todo" -> "pending"
      [] status = "in progress" -> "in_progress"
      [] status = "complete" -> "done"
      [] status = "completed" -> "done"
      [] OTHER -> status

\* utils.py:40  str(raw or "").strip().lower() on the status texts of the model
\* (a status is an atom, so the conversion is tabulated).
StripLower(raw) ==
    CASE raw = "DONE" -> "done"
      [] raw = " done " -> "done"
      [] raw = "Blocked" -> "blocked"
      [] raw = "To Do" -> "to do"
      [] OTHER -> raw

\* utils.py:33-42
normalize_task_status(raw) ==
    LET normalized == _TASK_STATUS_ALIASES(StripLower(raw))
    IN  IF normalized \in ALLOWED_TASK_STATUSES THEN normalized ELSE "pending"

\* ---- ingest_data: kuzu_manager.py:527-675
STR_Unassigned == <<"U", "n", "a", "s", "s", "i", "g", "n", "e", "d">>
STR_NoDescription == <<"N", "o", " ", "D", "e", "s", "c", "r", "i", "p", "t", "i", "o", "n">>

\* kuzu_manager.py:537-541
PersonStatements(p) ==
    <<MergeOnCreate("Person",
        [name |-> p.name, role |-> IF p.role = None THEN STR_Member ELSE p.role[1]])>>

\* kuzu_manager.py:544-564
TopicStatements(t, meeting_id) ==
    LET plain_title == strip(t.title)
        scoped_title == build_scoped_value(meeting_id, plain_title)
    IN  IF scoped_title = <<>> THEN <<>>
        ELSE <<MergeOnCreate("Topic", [title |-> scoped_title, summary |-> t.summary])>>
             \o (IF t.proposer # None /\ t.proposer[1] # <<>> /\ t.proposer[1] # STR_Unknown
                 THEN <<MergeRel("PROPOSED", "Person", t.proposer[1], "Topic", scoped_title)>>
                 ELSE <<>>)
             \o (IF meeting_id # <<>>
                 THEN <<MergeRel("DISCUSSED", "Meeting", meeting_id, "Topic", scoped_title)>>
                 ELSE <<>>)

\* kuzu_manager.py:567-589
TaskStatements(task, meeting_id) ==
    LET desc_text == IF strip(task.description) # <<>> THEN strip(task.description)
                     ELSE STR_NoDescription
        scoped_desc == build_scoped_value(meeting_id, desc_text)
        status == normalize_task_status(task.status)
        assigned == task.assignee # None /\ task.assignee[1] # <<>>
                        /\ task.assignee[1] # STR_Unassigned
    IN  <<MergeOnCreate("Task",
            [description |-> scoped_desc, deadline |-> task.deadline, status |-> status])>>
        \o (IF assigned
            THEN <<MergeOnCreate("Person", [name |-> task.assignee[1], role |-> STR_Member]),
                   MergeRel("ASSIGNED_TO", "Person", task.assignee[1], "Task", scoped_desc)>>
            ELSE <<>>)
        \o (IF meeting_id # <<>>
            THEN <<MergeRel("HAS_TASK", "Meeting", meeting_id, "Task", scoped_desc)>>
            ELSE <<>>)

\* kuzu_manager.py:549: topic_keys_by_plain after the topic loop, as the set of its
\* keys (its value for a key k is build_scoped_value(meeting_id, k)).
TopicKeysByPlain(topics, meeting_id) ==
    {strip(topics[i].title) : i \in {j \in 1..Len(topics) :
        build_scoped_value(meeting_id, strip(topics[j].title)) # <<>>}}

\* kuzu_manager.py:592-610
DecisionStatements(dec, topics, meeting_id) ==
    LET desc_text == IF strip(dec.description) # <<>> THEN strip(dec.description)
                     ELSE STR_NoDescription
        scoped_desc == build_scoped_value(meeting_id, desc_text)
        plain_related_topic == IF dec.related_topic = None THEN <<>>
                               ELSE strip(dec.related_topic[1])
        resolved_topic_key ==
            IF plain_related_topic \in TopicKeysByPlain(topics, meeting_id)
            THEN build_scoped_value(meeting_id, plain_related_topic)
            ELSE build_scoped_value(meeting_id, plain_related_topic)
    IN  <<MergeOnCreate("Decision", [description |-> scoped_desc])>>
        \o (IF meeting_id # <<>>
            THEN <<MergeRel("HAS_DECISION", "Meeting", meeting_id, "Decision", scoped_desc)>>
            ELSE <<>>)
        \o (IF dec.related_topic # None /\ dec.related_topic[1] # <<>>
            THEN <<MergeRel("RESULTED_IN", "Topic", resolved_topic_key, "Decision", scoped_desc)>>
            ELSE <<>>)

\* A faulty variant of EntityStatements: no HAS_ENTITY edge from the Meeting.
EntityStatements_no_meeting_edge(ent, meeting_id) ==
    LET ent_name == strip(ent.name)
        scoped_name == build_scoped_value(meeting_id, ent_name)
    IN  IF ent_name = <<>> THEN <<>>
        ELSE <<MergeOnCreate("Entity",
                 [name |-> scoped_name, entity_type |-> ent.entity_type,
                  description |-> ent.description])>>
             \o (IF ent.entity_type = "person"
                 THEN <<MergeOnCreate("Person", [name |-> ent_name, role |-> STR_Member])>>
                 ELSE <<>>)

\* kuzu_manager.py:614-637
EntityStatements(ent, meeting_id) ==
    LET ent_name == strip(ent.name)
        scoped_name == build_scoped_value(meeting_id, ent_name)
    IN  IF ent_name = <<>> THEN <<>>
        ELSE <<MergeOnCreate("Entity",
                 [name |-> scoped_name, entity_type |-> ent.entity_type,
                  description |-> ent.description])>>
             \o (IF meeting_id # <<>>
                 THEN <<MergeRel("HAS_ENTITY", "Meeting", meeting_id, "Entity", scoped_name)>>
                 ELSE <<>>)
             \o (IF ent.entity_type = "person"
                 THEN <<MergeOnCreate("Person", [name |-> ent_name, role |-> STR_Member])>>
                 ELSE <<>>)

\* kuzu_manager.py:619: the keys of entity_keys_by_plain after the entity loop.
EntityKeysByPlain(entities) ==
    {strip(entities[i].name) : i \in {j \in 1..Len(entities) : strip(entities[j].name) # <<>>}}

\* kuzu_manager.py:640-652
RelationStatements(rel, entities, meeting_id) ==
    LET src == strip(rel.source)
        tgt == strip(rel.target)
    IN  IF src \notin EntityKeysByPlain(entities) \/ tgt \notin EntityKeysByPlain(entities)
        THEN <<>>
        ELSE <<MergeRelTyped("RELATED_TO", "Entity", build_scoped_value(meeting_id, src),
                 "Entity", build_scoped_value(meeting_id, tgt), rel.relation_type)>>

\* The first index of a key in a list of items (dict insertion order).
FirstIndex(items, field, key) ==
    CHOOSE i \in 1..Len(items) :
        /\ strip(items[i][field]) = key
        /\ \A j \in 1..(i - 1) : strip(items[j][field]) # key

\* kuzu_manager.py:655-670: MENTIONS for topic i and entity j, emitted once per
\* distinct plain title and plain entity name.
MentionStatements(topics, entities, meeting_id, i, j) ==
    LET plain_title == strip(topics[i].title)
        ent_plain == strip(entities[j].name)
        topic_text == plain_title \o <<" ">> \o topics[i].summary
    IN  IF /\ plain_title \in TopicKeysByPlain(topics, meeting_id)
           /\ FirstIndex(topics, "title", plain_title) = i
           /\ ent_plain # <<>>
           /\ FirstIndex(entities, "name", ent_plain) = j
           /\ contains(topic_text, ent_plain)
        THEN <<MergeRel("MENTIONS", "Topic", build_scoped_value(meeting_id, plain_title),
                 "Entity", build_scoped_value(meeting_id, ent_plain))>>
        ELSE <<>>

\* ss[1] \o ... \o ss[n]
RECURSIVE ConcatTo(_, _)
ConcatTo(ss, n) == IF n = 0 THEN <<>> ELSE ConcatTo(ss, n - 1) \o ss[n]

Concat(ss) == ConcatTo(ss, Len(ss))

\* kuzu_manager.py:533-670: every statement of ingest_data's transaction, in order.
DataStatements(a, meeting_id) ==
    Concat([i \in 1..Len(a.people) |-> PersonStatements(a.people[i])])
    \o Concat([i \in 1..Len(a.topics) |-> TopicStatements(a.topics[i], meeting_id)])
    \o Concat([i \in 1..Len(a.tasks) |-> TaskStatements(a.tasks[i], meeting_id)])
    \o Concat([i \in 1..Len(a.decisions) |->
                DecisionStatements(a.decisions[i], a.topics, meeting_id)])
    \o Concat([i \in 1..Len(a.entities) |-> EntityStatements(a.entities[i], meeting_id)])
    \o Concat([i \in 1..Len(a.relations) |->
                RelationStatements(a.relations[i], a.entities, meeting_id)])
    \o Concat([k \in 1..(Len(a.topics) * Len(a.entities)) |->
                MentionStatements(a.topics, a.entities, meeting_id,
                    ((k - 1) \div Len(a.entities)) + 1, ((k - 1) % Len(a.entities)) + 1)])

\* kuzu_manager.py:527-675
ingest_data(d, analysis_result, meeting_id, fault) ==
    _transaction(d, DataStatements(analysis_result, meeting_id), fault)

\* ---- export_graph_dump: kuzu_manager.py:210-333
\* The rows of a table in the order the store returns them.
RECURSIVE SetToSeq(_)
SetToSeq(S) == IF S = {} THEN <<>> ELSE LET x == CHOOSE y \in S : TRUE IN <<x>> \o SetToSeq(S \ {x})

\* kuzu_manager.py:254-269: an utterance record carries its embedding only when
\* include_embeddings is set.
ExportUtterance(u, include_embeddings) ==
    [id |-> Some(u.id), text |-> u.text, start |-> u.startTime, end |-> u.endTime,
     embedding |-> IF include_embeddings THEN Some(u.embedding) ELSE None]

\* The export without the DISCUSSED edges.
export_graph_dump_no_discussed(d, include_embeddings) ==
    [nodes |->
        [meetings |-> SetToSeq(d.Meeting),
         people |-> SetToSeq(d.Person),
         topics |-> SetToSeq(d.Topic),
         tasks |-> SetToSeq(d.Task),
         decisions |-> SetToSeq(d.Decision),
         utterances |-> SetToSeq({ExportUtterance(u, include_embeddings) : u \in d.Utterance}),
         entities |-> SetToSeq(d.Entity)],
     edges |->
        [proposed |-> SetToSeq(d.PROPOSED),
         assigned_to |-> SetToSeq(d.ASSIGNED_TO),
         resulted_in |-> SetToSeq(d.RESULTED_IN),
         spoke |-> SetToSeq(d.SPOKE),
         next |-> SetToSeq(d.NEXT),
         discussed |-> <<>>,
         contains |-> SetToSeq(d.CONTAINS),
         has_task |-> SetToSeq(d.HAS_TASK),
         has_decision |-> SetToSeq(d.HAS_DECISION),
         related_to |-> SetToSeq(d.RELATED_TO),
         mentions |-> SetToSeq(d.MENTIONS),
         has_entity |-> SetToSeq(d.HAS_ENTITY)]]

\* kuzu_manager.py:210-333
export_graph_dump(d, include_embeddings) ==
    [nodes |->
        [meetings |-> SetToSeq(d.Meeting),
         people |-> SetToSeq(d.Person),
         topics |-> SetToSeq(d.Topic),
         tasks |-> SetToSeq(d.Task),
         decisions |-> SetToSeq(d.Decision),
         utterances |-> SetToSeq({ExportUtterance(u, include_embeddings) : u \in d.Utterance}),
         entities |-> SetToSeq(d.Entity)],
     edges |->
        [proposed |-> SetToSeq(d.PROPOSED),
         assigned_to |-> SetToSeq(d.ASSIGNED_TO),
         resulted_in |-> SetToSeq(d.RESULTED_IN),
         spoke |-> SetToSeq(d.SPOKE),
         next |-> SetToSeq(d.NEXT),
         discussed |-> SetToSeq(d.DISCUSSED),
         contains |-> SetToSeq(d.CONTAINS),
         has_task |-> SetToSeq(d.HAS_TASK),
         has_decision |-> SetToSeq(d.HAS_DECISION),
         related_to |-> SetToSeq(d.RELATED_TO),
         mentions |-> SetToSeq(d.MENTIONS),
         has_entity |-> SetToSeq(d.HAS_ENTITY)]]

\* ---- restore_graph_dump: kuzu_manager.py:335-525
\* The utterance loop without the substitution: the record's embedding, or the
\* empty list, is stored as it is.
RestoreUtterance_as_given(item) ==
    IF item.id = None THEN <<>>
    ELSE <<MergeSet("Utterance",
             [id |-> item.id[1], text |-> item.text, startTime |-> item.start,
              endTime |-> item.end,
              embedding |-> IF item.embedding = None THEN <<>> ELSE item.embedding[1]])>>

\* kuzu_manager.py:396-414: a record with no id is skipped; a record whose
\* embedding is missing, None or the empty list (`not embedding`) gets
\* [0.0] * embedding_dim.
RestoreUtterance(item) ==
    IF item.id = None THEN <<>>
    ELSE <<MergeSet("Utterance",
             [id |-> item.id[1], text |-> item.text, startTime |-> item.start,
              endTime |-> item.end,
              embedding |-> IF item.embedding = None \/ item.embedding = Some(<<>>)
                            THEN ZeroVector ELSE item.embedding[1]])>>

\* One edge record: skipped when either end is empty (kuzu_manager.py:417-479).
RestoreEdge(rel, ft, tt, e) ==
    IF e[1] = <<>> \/ e[2] = <<>> THEN <<>> ELSE <<MergeRel(rel, ft, e[1], tt, e[2])>>

RestoreEdges(rel, ft, tt, es) == Concat([i \in 1..Len(es) |-> RestoreEdge(rel, ft, tt, es[i])])

\* kuzu_manager.py:345-519: every statement of restore_graph_dump's transaction.
RestoreStatements(dump) ==
    LET n == dump.nodes
        e == dump.edges
    IN  Concat([i \in 1..Len(n.meetings) |->
                IF n.meetings[i].id = <<>> THEN <<>> ELSE <<MergeSet("Meeting", n.meetings[i])>>])
        \o Concat([i \in 1..Len(n.people) |->
                IF n.people[i].name = <<>> THEN <<>> ELSE <<MergeSet("Person", n.people[i])>>])
        \o Concat([i \in 1..Len(n.topics) |->
                IF n.topics[i].title = <<>> THEN <<>> ELSE <<MergeSet("Topic", n.topics[i])>>])
        \o Concat([i \in 1..Len(n.tasks) |->
                IF n.tasks[i].description = <<>> THEN <<>>
                ELSE <<MergeSet("Task",
                        [n.tasks[i] EXCEPT !.status = normalize_task_status(@)])>>])
        \o Concat([i \in 1..Len(n.decisions) |->
                IF n.decisions[i].description = <<>> THEN <<>>
                ELSE <<MergeOnCreate("Decision", n.decisions[i])>>])
        \o Concat([i \in 1..Len(n.utterances) |-> RestoreUtterance(n.utterances[i])])
        \o RestoreEdges("PROPOSED", "Person", "Topic", e.proposed)
        \o RestoreEdges("ASSIGNED_TO", "Person", "Task", e.assigned_to)
        \o RestoreEdges("RESULTED_IN", "Topic", "Decision", e.resulted_in)
        \o RestoreEdges("SPOKE", "Person", "Utterance", e.spoke)
        \o RestoreEdges("NEXT", "Utterance", "Utterance", e.next)
        \o RestoreEdges("DISCUSSED", "Meeting", "Topic", e.discussed)
        \o RestoreEdges("CONTAINS", "Meeting", "Utterance", e.contains)
        \o RestoreEdges("HAS_TASK", "Meeting", "Task", e.has_task)
        \o RestoreEdges("HAS_DECISION", "Meeting", "Decision", e.has_decision)
        \o Concat([i \in 1..Len(n.entities) |->
                IF n.entities[i].name = <<>> THEN <<>>
                ELSE <<MergeOnCreate("Entity", n.entities[i])>>])
        \o Concat([i \in 1..Len(e.related_to) |->
                IF e.related_to[i][1] = <<>> \/ e.related_to[i][2] = <<>> THEN <<>>
                ELSE <<MergeRelTyped("RELATED_TO", "Entity", e.related_to[i][1],
                         "Entity", e.related_to[i][2], e.related_to[i][3])>>])
        \o RestoreEdges("MENTIONS", "Topic", "Entity", e.mentions)
        \o RestoreEdges("HAS_ENTITY", "Meeting", "Entity", e.has_entity)

\* kuzu_manager.py:335-525
restore_graph_dump(d, dump, fault) == _transaction(d, RestoreStatements(dump), fault)

\* ---- get_meeting_summary: kuzu_manager.py:886-981
\* The rows of each query are a set; a row of the task query pairs the task with
\* one assignee, or with None when OPTIONAL MATCH finds no ASSIGNED_TO edge.
TaskRows(d, tasks) ==
    {[task |-> pr[1], assignee |-> Some(pr[2].name)] :
        pr \in {x \in tasks \X d.Person : <<x[2].name, x[1].description>> \in d.ASSIGNED_TO}}
    \cup {[task |-> t, assignee |-> None] :
            t \in {x \in tasks : ~\E q \in d.Person : <<q.name, x.description>> \in d.ASSIGNED_TO}}

get_meeting_summary(d, meeting_id) ==
    LET meeting_rows == {m \in d.Meeting : m.id = meeting_id}
        m == CHOOSE x \in meeting_rows : TRUE
        topics == {t \in d.Topic : <<meeting_id, t.title>> \in d.DISCUSSED}
        has_decision == {x \in d.Decision : <<meeting_id, x.description>> \in d.HAS_DECISION}
        \* kuzu_manager.py:906-912: the fallback for stores without HAS_DECISION edges
        via_topic == {x \in d.Decision :
                        \E t \in topics : <<t.title, x.description>> \in d.RESULTED_IN}
        decisions == IF has_decision # {} THEN has_decision ELSE via_topic
        speakers == {q \in d.Person :
                        \E u \in d.Utterance :
                            /\ <<meeting_id, u.id>> \in d.CONTAINS
                            /\ <<q.name, u.id>> \in d.SPOKE}
        has_task == TaskRows(d, {t \in d.Task : <<meeting_id, t.description>> \in d.HAS_TASK})
        \* kuzu_manager.py:924-930: the fallback for stores without HAS_TASK edges
        via_speaker == {[task |-> pr[1], assignee |-> Some(pr[2].name)] :
                            pr \in {x \in d.Task \X speakers :
                                        <<x[2].name, x[1].description>> \in d.ASSIGNED_TO}}
        tasks == IF has_task # {} THEN has_task ELSE via_speaker
        entities == {x \in d.Entity : <<meeting_id, x.name>> \in d.HAS_ENTITY}
    IN  IF meeting_rows = {} THEN [found |-> FALSE]
        ELSE [found |-> TRUE,
              meeting_id |-> meeting_id,
              title |-> m.title, date |-> m.date, source_file |-> m.source_file,
              topics |-> {[id |-> t.title, title |-> decode_scoped_value(t.title),
                           summary |-> t.summary,
                           meeting_id |-> extract_scope_from_value(t.title)] : t \in topics},
              decisions |-> {[id |-> x.description,
                              description |-> decode_scoped_value(x.description),
                              meeting_id |-> extract_scope_from_value(x.description)] :
                                x \in decisions},
              people |-> {[name |-> q.name, role |-> q.role] : q \in speakers},
              tasks |-> {[id |-> r.task.description,
                          description |-> decode_scoped_value(r.task.description),
                          deadline |-> r.task.deadline,
                          status |-> normalize_task_status(r.task.status),
                          assignee |-> r.assignee,
                          meeting_id |-> extract_scope_from_value(r.task.description)] :
                            r \in tasks},
              entities |-> {[name |-> decode_scoped_value(x.name),
                             entity_type |-> x.entity_type, description |-> x.description,
                             meeting_id |-> extract_scope_from_value(x.name)] : x \in entities}]

\* ---- SpeakNodeEngine.process: pipeline.py:91-187
\* outcome names the step that fails ("none": no step fails):
\*   "stt_none"           transcribe returns nothing            (pipeline.py:112-115)
\*   "embed"              embed raises, before the store opens   (pipeline.py:131)
\*   "open"               KuzuManager(...) raises                (pipeline.py:134)
\*   "create_meeting"     the MERGE of the Meeting raises        (pipeline.py:142)
\*   "ingest_transcript"  a statement of the transcript transaction raises (fault)
\*   "extract_raises"     extract raises: caught, logged         (pipeline.py:155-160)
\*   "extract_empty"      extract returns nothing                (pipeline.py:162-169)
\*   "ingest_data"        a statement of the data transaction raises (fault)
ProcessOutcomes ==
    {"none", "stt_none", "embed", "open", "create_meeting", "ingest_transcript",
     "extract_raises", "extract_empty", "ingest_data"}

\* pipeline.py:72-84: one vector per segment.
embed(segments) == [i \in 1..Len(segments) |-> AVector]

process(d, segments, analysis_data, meeting_id, title, outcome, fault) ==
    LET unchanged(ret) == [db |-> d, raised |-> ret = "raised", returned |-> ret]
        m == create_meeting(d, meeting_id, title, "date", "file",
                            IF outcome = "create_meeting" THEN 1 ELSE 0)
        tr == ingest_transcript(m.db, segments, Some(embed(segments)), meeting_id,
                                IF outcome = "ingest_transcript" THEN fault ELSE 0)
        da == ingest_data(tr.db, analysis_data, meeting_id,
                          IF outcome = "ingest_data" THEN fault ELSE 0)
    IN  IF outcome = "stt_none" THEN unchanged("none")
        ELSE IF outcome \in {"embed", "open"} THEN unchanged("raised")
        ELSE IF m.raised THEN unchanged("raised")
        ELSE IF tr.raised THEN [db |-> tr.db, raised |-> TRUE, returned |-> "raised"]
        ELSE IF outcome \in {"extract_raises", "extract_empty"}
             THEN [db |-> tr.db, raised |-> FALSE, returned |-> "empty_result"]
        ELSE IF da.raised THEN [db |-> da.db, raised |-> TRUE, returned |-> "raised"]
        ELSE [db |-> da.db, raised |-> FALSE, returned |-> "result"]

(***************************************************************************)
(* Graph store: the specification                                          *)
(***************************************************************************)

MaxCalls == 2
MaxEmbeddings == 2

MeetingIds == {<<"m", "_", "1">>, <<"m", "_", "2">>}

seg1 == [start |-> 0, end |-> 1, text |-> <<"t">>, speaker |-> None]
seg2 == [start |-> 1, end |-> 2, text |-> <<"t", " ">>, speaker |-> Some(<<"A">>)]
seg3 == [start |-> 0, end |-> 1, text |-> <<"t">>, speaker |-> Some(<<"A">>)]

SegmentLists == {<<>>, <<seg1>>, <<seg1, seg2>>, <<seg3, seg2>>}

\* None, or a list of 0 .. MaxEmbeddings vectors.
EmbeddingArgs == {None} \cup {Some([i \in 1..k |-> AVector]) : k \in 0..MaxEmbeddings}

pA == [name |-> <<"A">>, role |-> None]
t1 == [title |-> <<"a">>, summary |-> <<"e">>, proposer |-> Some(<<"A">>)]
task1 == [description |-> <<"a">>, deadline |-> "TBD", status |-> "DONE", assignee |-> Some(<<"B">>)]
dec1 == [description |-> <<"a">>, related_topic |-> Some(<<"a">>)]
ent1 == [name |-> <<"e">>, entity_type |-> "concept", description |-> "d"]
ent2 == [name |-> <<"A">>, entity_type |-> "person", description |-> "d"]
rel1 == [source |-> <<"e">>, target |-> <<"A">>, relation_type |-> "uses"]

FullPayload ==
    [people |-> <<pA>>, topics |-> <<t1>>, tasks |-> <<task1>>, decisions |-> <<dec1>>,
     entities |-> <<ent1, ent2>>, relations |-> <<rel1>>]

EmptyPayload ==
    [people |-> <<>>, topics |-> <<>>, tasks |-> <<>>, decisions |-> <<>>,
     entities |-> <<>>, relations |-> <<>>]

Payloads ==
    {EmptyPayload, FullPayload,
     [EmptyPayload EXCEPT !.people = <<pA>>, !.tasks = <<task1>>],
     [EmptyPayload EXCEPT !.topics = <<t1>>, !.decisions = <<dec1>>],
     [EmptyPayload EXCEPT !.decisions = <<dec1>>, !.entities = <<ent1, ent2>>,
                          !.relations = <<rel1>>]}

\* A store holding one ingested document, and the dumps taken from it.
SampleStore ==
    LET m == create_meeting(EmptyDb, <<"m", "_", "1">>, "title", "date", "file", 0).db
        tr == ingest_transcript(m, <<seg1, seg2>>, Some(<<AVector, AVector>>),
                                <<"m", "_", "1">>, 0).db
    IN  ingest_data(tr, FullPayload, <<"m", "_", "1">>, 0).db

\* The dump with the embedding of its k-th utterance record replaced.
WithEmbedding(dump, k, embedding) ==
    [dump EXCEPT !.nodes.utterances[k].embedding = embedding]

\* Dumps of the sample store: with every embedding, with none, with the first
\* one an empty list, with the second one missing.
Dumps ==
    {export_graph_dump(SampleStore, inc) : inc \in BOOLEAN}
        \cup {WithEmbedding(export_graph_dump(SampleStore, TRUE), 1, Some(<<>>)),
              WithEmbedding(export_graph_dump(SampleStore, TRUE), 2, None)}

\* What st_last records of a call.
Last(op, before, r, began, missing, nsegs, mid, step) ==
    [op |-> op, before |-> before, raised |-> r.raised, began |-> began,
     wrote |-> r.raised /\ began /\ r.executed > 0,
     missing_embedding |-> missing, nsegs |-> nsegs, meeting_id |-> mid, failed_step |-> step]

StoreInit ==
    /\ db = EmptyDb
    /\ st_last = [op |-> "none"]
    /\ st_calls = 0
    /\ NotStoreIdle

IngestMeetingIds == {<<>>, <<"m", "_", "1">>}

CreateMeeting ==
    /\ st_calls < MaxCalls
    /\ \E mid \in MeetingIds, fault \in 0..1 :
        LET r == create_meeting(db, mid, "title", "date", "file", fault)
        IN  /\ db' = r.db
            /\ st_last' = Last("create_meeting", db, r, FALSE, FALSE, 0, mid, "none")
    /\ st_calls' = st_calls + 1
    /\ UNCHANGED notStoreVars

IngestTranscript ==
    /\ st_calls < MaxCalls
    /\ \E segments \in SegmentLists, embeddings \in EmbeddingArgs, mid \in IngestMeetingIds :
        \E fault \in 0..(Len(TranscriptStatements(segments, embeddings, mid, Len(segments))) + 1) :
            LET r == ingest_transcript(db, segments, embeddings, mid, fault)
                began == embeddings = None \/ Len(embeddings[1]) = Len(segments)
                missing == IF embeddings = None THEN Len(segments) >= 1
                           ELSE Len(embeddings[1]) # Len(segments)
            IN  /\ db' = r.db
                /\ st_last' = Last("ingest_transcript", db, r, began, missing,
                                   Len(segments), mid, "none")
    /\ st_calls' = st_calls + 1
    /\ UNCHANGED notStoreVars

IngestData ==
    /\ st_calls < MaxCalls
    /\ \E a \in Payloads, mid \in IngestMeetingIds :
        \E fault \in 0..(Len(DataStatements(a, mid)) + 1) :
            LET r == ingest_data(db, a, mid, fault)
            IN  /\ db' = r.db
                /\ st_last' = Last("ingest_data", db, r, TRUE, FALSE, 0, mid, "none")
    /\ st_calls' = st_calls + 1
    /\ UNCHANGED notStoreVars

RestoreGraphDump ==
    /\ st_calls < MaxCalls
    /\ \E dump \in Dumps :
        \E fault \in 0..(Len(RestoreStatements(dump)) + 1) :
            LET r == restore_graph_dump(db, dump, fault)
            IN  /\ db' = r.db
                /\ st_last' = Last("restore_graph_dump", db, r, TRUE, FALSE, 0, <<>>, "none")
                                @@ [utterances |-> dump.nodes.utterances]
    /\ st_calls' = st_calls + 1
    /\ UNCHANGED notStoreVars

\* The statements at which the failing step of process can fail.
ProcessFaults(segments, a, mid, outcome) ==
    IF outcome = "ingest_transcript"
    THEN 1..(Len(TranscriptStatements(segments, Some(embed(segments)), mid, Len(segments))) + 1)
    ELSE IF outcome = "ingest_data" THEN 1..(Len(DataStatements(a, mid)) + 1)
    ELSE {0}

\* pipeline.py:136: the meeting id is the current time to the microsecond, so it
\* is new to the store.
Process ==
    /\ st_calls < MaxCalls
    /\ \E segments \in SegmentLists \ {<<>>}, a \in {FullPayload}, outcome \in ProcessOutcomes,
          mid \in {m \in MeetingIds : ~HasNode(db, "Meeting", m)} :
        \E fault \in ProcessFaults(segments, a, mid, outcome) :
            LET r == process(db, segments, a, mid, "title", outcome, fault)
            IN  /\ db' = r.db
                /\ st_last' = Last("process", db, r, FALSE, FALSE, Len(segments), mid,
                                   IF r.returned = "result" THEN "none" ELSE outcome)
    /\ st_calls' = st_calls + 1
    /\ UNCHANGED notStoreVars

StoreNext ==
    \/ CreateMeeting
    \/ IngestTranscript
    \/ IngestData
    \/ RestoreGraphDump
    \/ Process

SpecStore == StoreInit /\ [][StoreNext]_vars

(***************************************************************************)
(* HTTP server: per-dataset locks (server.py)                              *)
(*                                                                         *)
(* Handlers are coroutines on one event loop: a handler runs without       *)
(* interruption up to its next suspension.  _get_chat_lock never suspends  *)
(* (the guard lock is free whenever a handler runs, because no handler     *)
(* suspends while holding it); `async with lock` suspends only when the    *)
(* lock is taken or has waiters; analyze_audio and agent_query suspend     *)
(* inside their critical section on run_in_executor, the other handlers    *)
(* run their critical section without suspending.                          *)
(***************************************************************************)

STR_default == <<"d", "e", "f", "a", "u", "l", "t">>

\* config.py:75: the characters the pattern [^0-9A-Za-z_-] does not match.
IsSafeChar(c) == c \in {"a", "b", "_", "-"}

\* config.py:75: re.sub(r"[^0-9A-Za-z_-]+", "_", s): each run of other characters
\* becomes one "_".
RECURSIVE SubUnsafeRuns(_)
SubUnsafeRuns(s) ==
    IF s = <<>> THEN <<>>
    ELSE IF IsSafeChar(Head(s)) THEN <<Head(s)>> \o SubUnsafeRuns(Tail(s))
    ELSE IF Len(s) > 1 /\ ~IsSafeChar(s[2]) THEN SubUnsafeRuns(Tail(s))
    ELSE <<"_">> \o SubUnsafeRuns(Tail(s))

\* str.strip("_")
RECURSIVE StripUnderscores(_)
StripUnderscores(s) ==
    IF s = <<>> THEN <<>>
    ELSE IF Head(s) = "_" THEN StripUnderscores(Tail(s))
    ELSE IF s[Len(s)] = "_" THEN StripUnderscores(SubSeq(s, 1, Len(s) - 1))
    ELSE s

\* config.py:73-76
sanitize_chat_id(raw) ==
    LET safe == StripUnderscores(SubUnsafeRuns(strip(raw)))
    IN  IF safe = <<>> THEN STR_default ELSE safe

\* server.py:80-81
_normalize_chat_id(raw) == sanitize_chat_id(IF raw = <<>> THEN STR_default ELSE raw)

Endpoints ==
    {"analyze_audio", "create_chat", "reset_chat", "agent_query", "list_meetings",
     "get_meeting_detail", "export_graph", "import_graph", "update_node"}

\* The handlers that return or raise before taking the lock when the dataset's
\* database does not exist (server.py:319, 344, 361, 380, 427).
RequiresDb(kind) ==
    kind \in {"agent_query", "list_meetings", "get_meeting_detail", "export_graph", "update_node"}

\* The handlers that can reject the request before taking the lock
\* (server.py:227 upload validation, 407-423 import limits, 430-446 patch validation).
CanReject(kind) == kind \in {"analyze_audio", "import_graph", "update_node"}

\* The handlers that are meant to create the dataset's store: analyze_audio
\* (server.py:217-258), create_chat (server.py:275-281), import_graph
\* (server.py:397-421).
CreatesStore(kind) == kind \in {"analyze_audio", "create_chat", "import_graph"}

\* The handlers whose critical section awaits run_in_executor (server.py:237, 329).
AwaitsInside(kind) == kind \in {"analyze_audio", "agent_query"}

MaxRequests == 4
RawChatIds == {<<"a">>, <<"a", "/">>, <<"b">>}
Datasets == {_normalize_chat_id(raw) : raw \in RawChatIds}

NoRequest == [kind |-> "none", ds |-> <<>>, pc |-> "idle", lock |-> 0]
DoneRequest == [kind |-> "none", ds |-> <<>>, pc |-> "done", lock |-> 0]

\* server.py:95-101: the lock object of chat_id, created and recorded when the
\* dictionary has none.
_get_chat_lock(chat_id) ==
    IF sr_chat_locks[chat_id] = 0
    THEN [lock |-> sr_next_lock,
          locks |-> [sr_chat_locks EXCEPT ![chat_id] = sr_next_lock],
          next |-> sr_next_lock + 1]
    ELSE [lock |-> sr_chat_locks[chat_id], locks |-> sr_chat_locks, next |-> sr_next_lock]

ServerInit ==
    /\ sr_req = [r \in 1..MaxRequests |-> NoRequest]
    /\ sr_arrived = 0
    /\ sr_chat_locks = [ds \in Datasets |-> 0]
    /\ sr_next_lock = 1
    /\ sr_locked = {}
    /\ sr_waiters = [l \in 1..MaxRequests |-> <<>>]
    /\ sr_exists = [ds \in Datasets |-> FALSE]
    /\ sr_running = 0
    /\ sr_reset = [ds \in Datasets |-> FALSE]
    /\ NotServerIdle

\* A request arrives and its handler runs up to its first suspension: it ends
\* before the lock, or enters `async with lock`, or queues on the lock.
Arrive ==
    /\ sr_running = 0
    /\ sr_arrived < MaxRequests
    /\ \E kind \in Endpoints, raw \in RawChatIds, rejected \in BOOLEAN :
        LET r == sr_arrived + 1
            ds == _normalize_chat_id(raw)
            g == _get_chat_lock(ds)
            free == g.lock \notin sr_locked /\ sr_waiters[g.lock] = <<>>
        IN  /\ sr_arrived' = r
            /\ IF (rejected /\ CanReject(kind)) \/ (RequiresDb(kind) /\ ~sr_exists[ds])
               THEN /\ sr_req' = [sr_req EXCEPT ![r] = DoneRequest]
                    /\ UNCHANGED <<sr_chat_locks, sr_next_lock, sr_locked, sr_waiters, sr_running>>
               ELSE /\ sr_chat_locks' = g.locks
                    /\ sr_next_lock' = g.next
                    /\ IF free
                       THEN /\ sr_locked' = sr_locked \cup {g.lock}
                            /\ sr_req' = [sr_req EXCEPT ![r] =
                                    [kind |-> kind, ds |-> ds, pc |-> "cs", lock |-> g.lock]]
                            /\ sr_running' = IF AwaitsInside(kind) THEN 0 ELSE r
                            /\ UNCHANGED sr_waiters
                       ELSE /\ sr_waiters' = [sr_waiters EXCEPT ![g.lock] = Append(@, r)]
                            /\ sr_req' = [sr_req EXCEPT ![r] =
                                    [kind |-> kind, ds |-> ds, pc |-> "waiting", lock |-> g.lock]]
                            /\ UNCHANGED <<sr_locked, sr_running>>
    /\ UNCHANGED <<sr_exists, sr_reset>>
    /\ UNCHANGED notServerVars

\* A waiter whose future was resolved by the release resumes inside
\* Lock.acquire: it leaves the queue, sets the lock and enters the block.
Resume ==
    /\ sr_running = 0
    /\ \E r \in DOMAIN sr_req :
        /\ sr_req[r].pc = "woken"
        /\ sr_waiters' = [sr_waiters EXCEPT ![sr_req[r].lock] = Tail(@)]
        /\ sr_locked' = sr_locked \cup {sr_req[r].lock}
        /\ sr_req' = [sr_req EXCEPT ![r].pc = "cs"]
        /\ sr_running' = IF AwaitsInside(sr_req[r].kind) THEN 0 ELSE r
    /\ UNCHANGED <<sr_arrived, sr_chat_locks, sr_next_lock, sr_exists, sr_reset>>
    /\ UNCHANGED notServerVars

\* The critical section ends and the handler runs to its end: the lock is
\* released and its first waiter's future is resolved; reset_chat, when it
\* deleted the database, then removes the dataset's entry of _chat_locks
\* (server.py:305-307).  ok: the store operation of the block succeeded.
ExitCS ==
    /\ \E r \in DOMAIN sr_req, ok \in BOOLEAN :
        LET q == sr_req[r]
            w == sr_waiters[q.lock]
            deleted == q.kind = "reset_chat" /\ sr_exists[q.ds] /\ ok
        IN  /\ q.pc = "cs"
            /\ sr_running = (IF AwaitsInside(q.kind) THEN 0 ELSE r)
            /\ sr_locked' = sr_locked \ {q.lock}
            /\ sr_req' = [x \in DOMAIN sr_req |->
                    IF x = r THEN DoneRequest
                    ELSE IF w # <<>> /\ x = Head(w) THEN [sr_req[x] EXCEPT !.pc = "woken"]
                    ELSE sr_req[x]]
            /\ sr_exists' = [sr_exists EXCEPT ![q.ds] =
                    IF q.kind = "reset_chat" THEN @ /\ ~ok ELSE @ \/ ok]
            /\ sr_chat_locks' = IF deleted THEN [sr_chat_locks EXCEPT ![q.ds] = 0]
                                ELSE sr_chat_locks
            /\ sr_reset' = [sr_reset EXCEPT ![q.ds] =
                    IF q.kind = "reset_chat" THEN ~sr_exists'[q.ds]
                    ELSE IF CreatesStore(q.kind) THEN FALSE
                    ELSE @]
    /\ sr_running' = 0
    /\ UNCHANGED <<sr_arrived, sr_next_lock, sr_waiters>>
    /\ UNCHANGED notServerVars

ServerNext ==
    \/ Arrive
    \/ Resume
    \/ ExitCS

SpecServer == ServerInit /\ [][ServerNext]_vars

(***************************************************************************)
(* Natural-language-to-query search (hybrid_rag.py)                        *)
(***************************************************************************)

LowerToUpper ==
    ("a" :> "A" @@ "b" :> "B" @@ "c" :> "C" @@ "d" :> "D" @@ "e" :> "E" @@ "f" :> "F" @@
     "g" :> "G" @@ "h" :> "H" @@ "i" :> "I" @@ "j" :> "J" @@ "k" :> "K" @@ "l" :> "L" @@
     "m" :> "M" @@ "n" :> "N" @@ "o" :> "O" @@ "p" :> "P" @@ "q" :> "Q" @@ "r" :> "R" @@
     "s" :> "S" @@ "t" :> "T" @@ "u" :> "U" @@ "v" :> "V" @@ "w" :> "W" @@ "x" :> "X" @@
     "y" :> "Y" @@ "z" :> "Z")

\* str.upper, per character.
UpperChar(c) == IF c \in DOMAIN LowerToUpper THEN LowerToUpper[c] ELSE c
upper(s) == [i \in 1..Len(s) |-> UpperChar(s[i])]

\* The characters the regular expression class \w matches.
IsWordChar(c) ==
    \/ c \in DOMAIN LowerToUpper
    \/ c \in {LowerToUpper[x] : x \in DOMAIN LowerToUpper}
    \/ c \in {"0", "1", "2", "3", "4", "5", "6", "7", "8", "9", "_"}

\* re.sub(r"\s+", " ", s): each run of whitespace becomes one space.
RECURSIVE CollapseWhitespace(_)
CollapseWhitespace(s) ==
    IF s = <<>> THEN <<>>
    ELSE IF ~IsSpace(Head(s)) THEN <<Head(s)>> \o CollapseWhitespace(Tail(s))
    ELSE IF Len(s) > 1 /\ IsSpace(s[2]) THEN CollapseWhitespace(Tail(s))
    ELSE <<" ">> \o CollapseWhitespace(Tail(s))

\* str.rstrip(";")
RECURSIVE RstripSemicolons(_)
RstripSemicolons(s) ==
    IF s # <<>> /\ s[Len(s)] = ";" THEN RstripSemicolons(SubSeq(s, 1, Len(s) - 1)) ELSE s

\* re.search(rf"\b{token}\b", s) for a token of word characters.
WordSearch(token, s) ==
    \E i \in 1..(Len(s) - Len(token) + 1) :
        /\ SubSeq(s, i, i + Len(token) - 1) = token
        /\ (i = 1 \/ ~IsWordChar(s[i - 1]))
        /\ (i + Len(token) > Len(s) \/ ~IsWordChar(s[i + Len(token)]))

KW_MATCH == <<"M", "A", "T", "C", "H">>
KW_OPTIONAL == <<"O", "P", "T", "I", "O", "N", "A", "L">>
KW_WITH == <<"W", "I", "T", "H">>
KW_RETURN == <<"R", "E", "T", "U", "R", "N">>
KW_LIMIT == <<"L", "I", "M", "I", "T">>

\* hybrid_rag.py:16-31
FORBIDDEN_CYPHER_TOKENS ==
    <<<<"C", "R", "E", "A", "T", "E">>,
      <<"M", "E", "R", "G", "E">>,
      <<"S", "E", "T">>,
      <<"D", "E", "L", "E", "T", "E">>,
      <<"D", "R", "O", "P">>,
      <<"A", "L", "T", "E", "R">>,
      <<"I", "N", "S", "E", "R", "T">>,
      <<"R", "E", "M", "O", "V", "E">>,
      <<"C", "A", "L", "L">>,
      <<"C", "O", "P", "Y">>,
      <<"L", "O", "A", "D">>,
      <<"U", "N", "W", "I", "N", "D">>,
      <<"P", "R", "O", "F", "I", "L", "E">>,
      <<"E", "X", "P", "L", "A", "I", "N">>>>

\* hybrid_rag.py:111-113: the prefixes accepted by str.startswith.
AllowedStarts == {KW_MATCH \o <<" ">>, KW_OPTIONAL \o <<" ">> \o KW_MATCH \o <<" ">>, KW_WITH \o <<" ">>}

\* The validator without its deny-list scan.
_validate_read_only_cypher_no_deny_list(query) ==
    LET normalized_start == upper(CollapseWhitespace(strip(query)))
        upper_query == upper(query)
    IN  IF query = <<>> THEN [valid |-> FALSE, message |-> "Empty Cypher query."]
        ELSE IF ~\E p \in AllowedStarts : startswith(normalized_start, p)
        THEN [valid |-> FALSE, message |-> "Cypher must start with MATCH/OPTIONAL MATCH/WITH."]
        ELSE IF contains(query, <<";">>)
        THEN [valid |-> FALSE, message |-> "Multiple statements are not allowed."]
        ELSE IF ~contains(upper_query, KW_RETURN)
        THEN [valid |-> FALSE, message |-> "Cypher query must contain a RETURN clause."]
        ELSE [valid |-> TRUE, message |-> ""]

\* The validator without its statement-separator check.
_validate_read_only_cypher_no_separator_check(query) ==
    LET normalized_start == upper(CollapseWhitespace(strip(query)))
        upper_query == upper(query)
    IN  IF query = <<>> THEN [valid |-> FALSE, message |-> "Empty Cypher query."]
        ELSE IF ~\E p \in AllowedStarts : startswith(normalized_start, p)
        THEN [valid |-> FALSE, message |-> "Cypher must start with MATCH/OPTIONAL MATCH/WITH."]
        ELSE IF ~contains(upper_query, KW_RETURN)
        THEN [valid |-> FALSE, message |-> "Cypher query must contain a RETURN clause."]
        ELSE IF \E k \in DOMAIN FORBIDDEN_CYPHER_TOKENS :
                    WordSearch(FORBIDDEN_CYPHER_TOKENS[k], upper_query)
        THEN [valid |-> FALSE, message |-> "Read-only policy violation"]
        ELSE [valid |-> TRUE, message |-> ""]

\* hybrid_rag.py:107-124
_validate_read_only_cypher(query) ==
    LET normalized_start == upper(CollapseWhitespace(strip(query)))
        upper_query == upper(query)
    IN  IF query = <<>> THEN [valid |-> FALSE, message |-> "Empty Cypher query."]
        ELSE IF ~\E p \in AllowedStarts : startswith(normalized_start, p)
        THEN [valid |-> FALSE, message |-> "Cypher must start with MATCH/OPTIONAL MATCH/WITH."]
        ELSE IF contains(query, <<";">>)
        THEN [valid |-> FALSE, message |-> "Multiple statements are not allowed."]
        ELSE IF ~contains(upper_query, KW_RETURN)
        THEN [valid |-> FALSE, message |-> "Cypher query must contain a RETURN clause."]
        ELSE IF \E k \in DOMAIN FORBIDDEN_CYPHER_TOKENS :
                    WordSearch(FORBIDDEN_CYPHER_TOKENS[k], upper_query)
        THEN [valid |-> FALSE, message |-> "Read-only policy violation"]
        ELSE [valid |-> TRUE, message |-> ""]

\* The row limit without its upper clamp.
safe_limit_no_maximum(limit) ==
    LET n == IF limit = 0 THEN 20 ELSE limit
    IN  IF n > 1 THEN n ELSE 1

\* hybrid_rag.py:128: max(1, min(int(limit or 20), 200))
safe_limit(limit) ==
    LET n == IF limit = 0 THEN 20 ELSE limit
        m == IF n < 200 THEN n ELSE 200
    IN  IF m > 1 THEN m ELSE 1

\* hybrid_rag.py:102: the query of the model's output, stripped.
_generate_cypher(raw) == strip(raw)

\* cypher_search with neither try/except: an exception of _generate_cypher or
\* of execute_cypher leaves the function.
cypher_search_unguarded(generated, limit, exec_raises) ==
    LET stripped == strip(RstripSemicolons(generated[1]))
        query == IF contains(upper(stripped), KW_LIMIT) THEN stripped
                 ELSE stripped \o <<" ">> \o KW_LIMIT \o <<" ">> \o Str(safe_limit(limit))
        v == _validate_read_only_cypher(query)
    IN  IF generated = None
        THEN [raised |-> TRUE, ok |-> FALSE, error |-> "", query |-> <<>>,
              rows |-> "none", executed |-> <<>>]
        ELSE IF ~v.valid
        THEN [raised |-> FALSE, ok |-> FALSE, error |-> v.message, query |-> query,
              rows |-> "none", executed |-> <<>>]
        ELSE IF exec_raises
        THEN [raised |-> TRUE, ok |-> FALSE, error |-> "", query |-> query,
              rows |-> "none", executed |-> <<query>>]
        ELSE [raised |-> FALSE, ok |-> TRUE, error |-> "", query |-> query, rows |-> "rows",
              executed |-> <<query>>]

\* hybrid_rag.py:126-162.  generated: None when _generate_cypher raised, else
\* Some(query); exec_raises: execute_cypher raises.  executed lists the query
\* strings handed to execute_cypher.
\* rows is "none" for the empty list and "rows" for the rows of the store.
cypher_search(generated, limit, exec_raises) ==
    LET stripped == strip(RstripSemicolons(generated[1]))
        query == IF contains(upper(stripped), KW_LIMIT) THEN stripped
                 ELSE stripped \o <<" ">> \o KW_LIMIT \o <<" ">> \o Str(safe_limit(limit))
        v == _validate_read_only_cypher(query)
    IN  IF generated = None
        THEN [raised |-> FALSE, ok |-> FALSE, error |-> "Cypher execution failed",
              query |-> <<>>, rows |-> "none", executed |-> <<>>]
        ELSE IF ~v.valid
        THEN [raised |-> FALSE, ok |-> FALSE, error |-> v.message, query |-> query,
              rows |-> "none", executed |-> <<>>]
        ELSE IF exec_raises
        THEN [raised |-> FALSE, ok |-> FALSE, error |-> "Cypher execution failed",
              query |-> query, rows |-> "none", executed |-> <<query>>]
        ELSE [raised |-> FALSE, ok |-> TRUE, error |-> "", query |-> query, rows |-> "rows",
              executed |-> <<query>>]

MaxBodyLen == 3
LimitArgs == {-1, 0, 5, 250}

\* The model's query: one of these openings followed by up to MaxBodyLen pieces.
QueryHeads ==
    {<<>>,
     KW_MATCH \o <<" ">>,
     <<"m", "a", "t", "c", "h", " ">>,
     KW_MATCH,
     KW_OPTIONAL \o <<" ", " ">> \o KW_MATCH \o <<" ">>,
     KW_WITH \o <<" ">>}

BodyPieces ==
    {KW_RETURN, KW_LIMIT, <<"d", "e", "l", "e", "t", "e">>, <<"x">>, <<" ">>, <<";">>}

RECURSIVE Flatten(_)
Flatten(ps) == IF ps = <<>> THEN <<>> ELSE Head(ps) \o Flatten(Tail(ps))

RawQueries ==
    {head \o Flatten(body) : head \in QueryHeads, body \in SeqsUpTo(BodyPieces, MaxBodyLen)}

CypherInit ==
    /\ cy_raw \in RawQueries
    /\ cy_limit \in LimitArgs
    /\ cy_pc = "input"
    /\ cy_generated = <<>>
    /\ cy_executed = <<>>
    /\ cy_result = [ok |-> FALSE]
    /\ cy_fault = "none"
    /\ NotCypherIdle

CypherSearch ==
    /\ cy_pc = "input"
    /\ \E gen_raises \in BOOLEAN, exec_raises \in BOOLEAN :
        LET generated == IF gen_raises THEN None ELSE Some(_generate_cypher(cy_raw))
            r == cypher_search(generated, cy_limit, exec_raises)
        IN  /\ cy_generated' = generated
            /\ cy_executed' = r.executed
            /\ cy_result' = [raised |-> r.raised, ok |-> r.ok, error |-> r.error,
                              query |-> r.query, rows |-> r.rows]
            /\ cy_fault' = IF gen_raises THEN "generate"
                           ELSE IF exec_raises /\ r.executed # <<>> THEN "execute"
                           ELSE "none"
    /\ cy_pc' = "done"
    /\ UNCHANGED <<cy_raw, cy_limit>>
    /\ UNCHANGED notCypherVars

CypherNext == CypherSearch

SpecCypher == CypherInit /\ [][CypherNext]_vars

(***************************************************************************)
(* Agent turn: router, tool registry, synthesizer (agent.py)               *)
(*                                                                         *)
(* A JSON or Python value is a record tagged with its type in field t.     *)
(* The model's reply is a record: raises, or a content that is a string   *)
(* (a JSON text described by what json.loads makes of it) or not a string.*)
(***************************************************************************)

StrValue(v) == [t |-> "str", v |-> v]
DictArgs(q) == [t |-> "dict", query |-> q]

HumanMessage(content) == [role |-> "human", content |-> content]
AIMessage(content) == [role |-> "ai", content |-> content]

\* tools/*.py: the names registered by @registry.register.
REGISTERED_TOOLS ==
    {"search_by_meaning", "search_by_structure", "hybrid_search", "search_by_cypher",
     "get_meeting_summary", "draft_email", "direct_answer"}

\* json.loads: JSONDecodeError for a text that is not a JSON document, else
\* the value of the document.
json_loads(text) ==
    IF text.kind = "invalid" THEN [raised |-> TRUE]
    ELSE IF text.kind = "object"
    THEN [raised |-> FALSE,
          value |-> [t |-> "dict", tool_name |-> text.tool_name, tool_args |-> text.tool_args]]
    ELSE [raised |-> FALSE, value |-> [t |-> text.kind]]

\* agent.py:101-105: the first Human message instead of the last.
RECURSIVE first_human(_)
first_human(user_messages) ==
    IF user_messages = <<>> THEN ""
    ELSE IF Head(user_messages).role = "human" THEN Head(user_messages).content
    ELSE first_human(Tail(user_messages))

\* agent.py:101-105: the content of the last Human message, "" when there is none.
RECURSIVE last_human(_)
last_human(user_messages) ==
    IF user_messages = <<>> THEN ""
    ELSE IF user_messages[Len(user_messages)].role = "human"
    THEN user_messages[Len(user_messages)].content
    ELSE last_human(SubSeq(user_messages, 1, Len(user_messages) - 1))

\* agent.py:45-109.  response: the outcome of llm.invoke (agent.py:93, outside
\* the try).  A content without strip, and a parsed value without get, raise
\* AttributeError, caught with JSONDecodeError at agent.py:99.
router_node(state, response) ==
    LET fallback ==
            [state EXCEPT !.tool_name = StrValue("hybrid_search"),
                          !.tool_args = DictArgs(Some(last_human(state.messages)))]
        parsed == json_loads(response.content.text)
        tool_args == IF parsed.value.tool_args = None THEN DictArgs(None)
                     ELSE parsed.value.tool_args[1]
    IN  IF response.raises THEN [raised |-> TRUE, state |-> state]
        ELSE IF response.content.ctype # "str" THEN [raised |-> FALSE, state |-> fallback]
        ELSE IF parsed.raised THEN [raised |-> FALSE, state |-> fallback]
        ELSE IF parsed.value.t # "dict" THEN [raised |-> FALSE, state |-> fallback]
        ELSE [raised |-> FALSE,
              state |-> [state EXCEPT
                  !.tool_name = IF parsed.value.tool_name = None THEN StrValue("direct_answer")
                                ELSE parsed.value.tool_name[1],
                  !.tool_args = IF tool_args.t = "dict" THEN tool_args ELSE DictArgs(None)]]

\* dict.get(name) raises TypeError for a key that is not hashable.
Hashable(name) == name.t \notin {"list", "dict"}

NoResult == [kind |-> "none", name |-> StrValue("")]

\* tools/__init__.py:30-39.  handler_raises: the handler raises an Exception.
execute(name, args, handler_raises) ==
    IF ~Hashable(name) THEN [raised |-> TRUE, invoked |-> FALSE, result |-> NoResult]
    ELSE IF ~(name.t = "str" /\ name.v \in REGISTERED_TOOLS)
    THEN [raised |-> FALSE, invoked |-> FALSE, result |-> [kind |-> "unknown_tool", name |-> name]]
    ELSE IF handler_raises
    THEN [raised |-> FALSE, invoked |-> TRUE, result |-> [kind |-> "tool_error", name |-> name]]
    ELSE [raised |-> FALSE, invoked |-> TRUE, result |-> [kind |-> "tool_output", name |-> name]]

\* agent.py:112-124
tool_executor_node(state, handler_raises) ==
    LET e == execute(state.tool_name, state.tool_args, handler_raises)
    IN  IF e.raised THEN [raised |-> TRUE, state |-> state]
        ELSE [raised |-> FALSE,
              state |-> [state EXCEPT !.tool_result = e.result, !.context = e.result]]

\* agent.py:49 and agent.py:135
MAX_ROUTER_MESSAGES == 10
MAX_HISTORY_MESSAGES == 20

\* agent.py:50 and agent.py:136: the last n messages of a longer list, else the
\* list itself; the prompt of the model call is built from this copy.
recent_messages(messages, n) ==
    IF Len(messages) > n THEN SubSeq(messages, Len(messages) - n + 1, Len(messages))
    ELSE messages

\* The synthesizer appending its answer to the window it sent to the model.
synthesizer_node_windowed(state, response) ==
    IF response.raises THEN [raised |-> TRUE, state |-> state]
    ELSE [raised |-> FALSE,
          state |-> [state EXCEPT
              !.final_answer = response.content,
              !.messages = recent_messages(state.messages, MAX_HISTORY_MESSAGES)
                                \o <<AIMessage(response.content)>>]]

\* agent.py:127-183: llm.invoke (agent.py:180) is not guarded.  The window
\* recent_messages(state.messages, MAX_HISTORY_MESSAGES) goes into the prompt
\* only; state["messages"] is rebound to the whole list plus the answer.
synthesizer_node(state, response) ==
    IF response.raises THEN [raised |-> TRUE, state |-> state]
    ELSE [raised |-> FALSE,
          state |-> [state EXCEPT
              !.final_answer = response.content,
              !.messages = state.messages \o <<AIMessage(response.content)>>]]

\* agent.py:233-240
initial_state(chat_history, user_question) ==
    [messages |-> chat_history \o <<HumanMessage(user_question)>>,
     context |-> NoResult,
     tool_name |-> StrValue(""),
     tool_args |-> DictArgs(None),
     tool_result |-> NoResult,
     final_answer |-> ""]

\* agent.py:249-251: an exception of graph.invoke becomes the returned string.
ErrorAnswer == [kind |-> "returned", type |-> "str", text |-> "An error occurred"]

\* agent.py:207-219: the compiled graph.
GraphNodes == {"router", "tool_executor", "synthesizer", "END"}
EntryPoint == "router"
GraphEdges ==
    {<<"router", "tool_executor">>, <<"tool_executor", "synthesizer">>, <<"synthesizer", "END">>}

\* The graph with an edge from the synthesizer back to the router.
NextNode_retry(node) ==
    IF node = "synthesizer" THEN "router"
    ELSE CHOOSE m \in GraphNodes : <<node, m>> \in GraphEdges

\* The node that runs after node.
NextNode(node) == CHOOSE m \in GraphNodes : <<node, m>> \in GraphEdges

MaxHistory == 2

\* A history longer than both prompt windows, every message distinct.
LongHistory ==
    [i \in 1..(MAX_HISTORY_MESSAGES + 1) |->
        IF i % 2 = 1 THEN HumanMessage(ToString(i)) ELSE AIMessage(ToString(i))]

Histories == SeqsUpTo({HumanMessage("a"), AIMessage("b")}, MaxHistory) \cup {LongHistory}
Questions == {"q"}

ToolNameValues ==
    {StrValue(n) : n \in {"hybrid_search", "direct_answer", "draft_email", "no_such_tool"}}
        \cup {[t |-> "int", v |-> "5"], [t |-> "null", v |-> "null"],
              [t |-> "list", v |-> "[hybrid_search]"]}

ToolArgsValues == {DictArgs(None), DictArgs(Some("x")), [t |-> "list", query |-> None]}

JsonTexts ==
    {[kind |-> k] : k \in {"invalid", "list", "int", "null", "str", "bool"}}
        \cup {[kind |-> "object", tool_name |-> n, tool_args |-> a] :
                n \in {None} \cup {Some(v) : v \in ToolNameValues},
                a \in {None} \cup {Some(v) : v \in ToolArgsValues}}

RouterResponses ==
    {[raises |-> TRUE]}
        \cup {[raises |-> FALSE, content |-> [ctype |-> "str", text |-> x]] : x \in JsonTexts}
        \cup {[raises |-> FALSE, content |-> [ctype |-> c, text |-> [kind |-> "invalid"]]] :
                c \in {"list", "NoneType"}}

SynthesizerResponses == {[raises |-> TRUE], [raises |-> FALSE, content |-> "answer"]}

AgentInit ==
    /\ ag_pc = "Idle"
    /\ ag_history \in Histories
    /\ ag_question \in Questions
    /\ ag_state = [tool_name |-> ""]
    /\ ag_router = [ran |-> FALSE]
    /\ ag_exec = [ran |-> FALSE]
    /\ ag_node = "none"
    /\ ag_trace = <<>>
    /\ ag_outcome = [kind |-> "none"]
    /\ NotAgentIdle

\* agent.py:228-245: query appends the question and opens the store; the
\* `with KuzuManager(...)` statement is outside the try block.
Query ==
    /\ ag_pc = "Idle"
    /\ ag_outcome.kind = "none"
    /\ \E open_raises \in BOOLEAN :
        IF open_raises
        THEN /\ ag_outcome' = [kind |-> "raised", type |-> "none", text |-> "store open failed"]
             /\ ag_pc' = "Done"
             /\ UNCHANGED <<ag_state, ag_node>>
        ELSE /\ ag_state' = initial_state(ag_history, ag_question)
             /\ ag_pc' = "Started"
             /\ ag_node' = EntryPoint
             /\ UNCHANGED ag_outcome
    /\ UNCHANGED <<ag_history, ag_question, ag_router, ag_exec, ag_trace>>
    /\ UNCHANGED notAgentVars

RouterNode ==
    /\ ag_node = "router"
    /\ ag_trace' = Append(ag_trace, "router")
    /\ \E response \in RouterResponses :
        LET r == router_node(ag_state, response)
        IN  /\ ag_router' = [ran |-> TRUE, raised |-> r.raised, response |-> response]
            /\ ag_state' = r.state
            /\ ag_pc' = IF r.raised THEN "Done" ELSE "Routed"
            /\ ag_node' = IF r.raised THEN "none" ELSE NextNode("router")
            /\ ag_outcome' = IF r.raised THEN ErrorAnswer ELSE ag_outcome
    /\ UNCHANGED <<ag_history, ag_question, ag_exec>>
    /\ UNCHANGED notAgentVars

ToolExecutorNode ==
    /\ ag_node = "tool_executor"
    /\ ag_trace' = Append(ag_trace, "tool_executor")
    /\ \E handler_raises \in BOOLEAN :
        LET e == execute(ag_state.tool_name, ag_state.tool_args, handler_raises)
            r == tool_executor_node(ag_state, handler_raises)
        IN  /\ ag_exec' = [ran |-> TRUE, raised |-> e.raised, invoked |-> e.invoked,
                           handler_raises |-> handler_raises, name |-> ag_state.tool_name,
                           result |-> e.result]
            /\ ag_state' = r.state
            /\ ag_pc' = IF r.raised THEN "Done" ELSE "Executed"
            /\ ag_node' = IF r.raised THEN "none" ELSE NextNode("tool_executor")
            /\ ag_outcome' = IF r.raised THEN ErrorAnswer ELSE ag_outcome
    /\ UNCHANGED <<ag_history, ag_question, ag_router>>
    /\ UNCHANGED notAgentVars

SynthesizerNode ==
    /\ ag_node = "synthesizer"
    /\ ag_trace' = Append(ag_trace, "synthesizer")
    /\ \E response \in SynthesizerResponses :
        LET r == synthesizer_node(ag_state, response)
        IN  /\ ag_state' = r.state
            /\ ag_pc' = IF r.raised THEN "Done" ELSE "Synthesized"
            /\ ag_node' = IF r.raised THEN "none" ELSE NextNode("synthesizer")
            /\ ag_outcome' = IF r.raised THEN ErrorAnswer ELSE ag_outcome
    /\ UNCHANGED <<ag_history, ag_question, ag_router, ag_exec>>
    /\ UNCHANGED notAgentVars

\* agent.py:247: query returns the final answer.
ReturnAnswer ==
    /\ ag_node = "END"
    /\ ag_pc = "Synthesized"
    /\ ag_outcome' = [kind |-> "returned", type |-> "str", text |-> ag_state.final_answer]
    /\ ag_pc' = "Done"
    /\ UNCHANGED <<ag_history, ag_question, ag_state, ag_router, ag_exec, ag_node, ag_trace>>
    /\ UNCHANGED notAgentVars

AgentNext ==
    \/ Query
    \/ RouterNode
    \/ ToolExecutorNode
    \/ SynthesizerNode
    \/ ReturnAnswer

SpecAgent == AgentInit /\ [][AgentNext]_vars

(***************************************************************************)
(* Schema initialization (kuzu_manager.py:106-141)                         *)
(*                                                                         *)
(* CREATE ... TABLE adds an empty table; it raises when a table of that    *)
(* name exists, and for a relationship table when one of its end tables    *)
(* does not exist.                                                         *)
(***************************************************************************)

\* kuzu_manager.py:110-118, in order.
NODE_DEFINITIONS ==
    <<"Person", "Topic", "Task", "Decision", "Utterance", "Meeting", "Entity">>

\* kuzu_manager.py:119-132, in order: name, FROM table, TO table.
REL_DEFINITIONS ==
    <<<<"PROPOSED", "Person", "Topic">>,
      <<"ASSIGNED_TO", "Person", "Task">>,
      <<"RESULTED_IN", "Topic", "Decision">>,
      <<"SPOKE", "Person", "Utterance">>,
      <<"NEXT", "Utterance", "Utterance">>,
      <<"DISCUSSED", "Meeting", "Topic">>,
      <<"CONTAINS", "Meeting", "Utterance">>,
      <<"HAS_TASK", "Meeting", "Task">>,
      <<"HAS_DECISION", "Meeting", "Decision">>,
      <<"RELATED_TO", "Entity", "Entity">>,
      <<"MENTIONS", "Topic", "Entity">>,
      <<"HAS_ENTITY", "Meeting", "Entity">>>>

\* The CREATE statements of _initialize_schema, NODE tables first (kuzu_manager.py:135-136).
SchemaStatements ==
    [i \in 1..Len(NODE_DEFINITIONS) |-> <<NODE_DEFINITIONS[i]>>] \o REL_DEFINITIONS

\* conn.execute("CREATE NODE|REL TABLE ..."): the store after it, and whether it raised.
CreateTable(st, definition) ==
    IF definition[1] \in st.tables THEN [st EXCEPT !.raised = TRUE]
    ELSE IF Len(definition) = 3 /\ ~({definition[2], definition[3]} \subseteq st.tables)
    THEN [st EXCEPT !.raised = TRUE]
    ELSE [tables |-> st.tables \cup {definition[1]},
          db |-> [st.db EXCEPT ![definition[1]] = {}],
          raised |-> FALSE]

\* A variant of _initialize_schema without the try/except around each statement:
\* the first CREATE that raises ends the run with the exception.
RECURSIVE _initialize_schema_unguarded(_, _, _)
_initialize_schema_unguarded(tables, d, k) ==
    IF k = 0 THEN [tables |-> tables, db |-> d, raised |-> FALSE]
    ELSE LET prev == _initialize_schema_unguarded(tables, d, k - 1)
         IN  IF prev.raised THEN prev ELSE CreateTable(prev, SchemaStatements[k])

\* kuzu_manager.py:135-141: the first k statements, each inside try/except
\* Exception (an exception is logged unless it says "already exists").
RECURSIVE _initialize_schema(_, _, _)
_initialize_schema(tables, d, k) ==
    IF k = 0 THEN [tables |-> tables, db |-> d, raised |-> FALSE]
    ELSE LET prev == _initialize_schema(tables, d, k - 1)
         IN  [CreateTable(prev, SchemaStatements[k]) EXCEPT !.raised = FALSE]

MaxOpens == 3

SchemaInit ==
    /\ sc_tables = {}
    /\ sc_runs = 0
    /\ sc_first = {}
    /\ sc_last = [raised |-> FALSE]
    /\ NotSchemaIdle

\* kuzu_manager.py:44-67: opening a KuzuManager runs _initialize_schema.
OpenKuzuManager ==
    /\ sc_runs < MaxOpens
    /\ LET r == _initialize_schema(sc_tables, db, Len(SchemaStatements))
       IN  /\ sc_tables' = r.tables
           /\ db' = r.db
           /\ sc_first' = IF sc_runs = 0 THEN r.tables ELSE sc_first
           /\ sc_last' = [raised |-> r.raised, tables_before |-> sc_tables, rows_before |-> db]
    /\ sc_runs' = sc_runs + 1
    /\ UNCHANGED notSchemaVars

\* pipeline.py:134-177: process opens a KuzuManager on the database, which
\* runs _initialize_schema, and ingests one document.
OpenAndProcess ==
    /\ sc_runs < MaxOpens
    /\ \E segments \in SegmentLists \ {<<>>}, a \in Payloads,
          outcome \in {"none", "extract_empty"},
          mid \in {m \in MeetingIds : ~HasNode(db, "Meeting", m)} :
        LET r == _initialize_schema(sc_tables, db, Len(SchemaStatements))
        IN  /\ sc_tables' = r.tables
            /\ db' = process(r.db, segments, a, mid, "title", outcome, 0).db
            /\ sc_first' = IF sc_runs = 0 THEN r.tables ELSE sc_first
            /\ sc_last' = [raised |-> r.raised, tables_before |-> sc_tables, rows_before |-> db]
    /\ sc_runs' = sc_runs + 1
    /\ UNCHANGED notSchemaVars

SchemaNext ==
    \/ OpenKuzuManager
    \/ OpenAndProcess

SpecSchema == SchemaInit /\ [][SchemaNext]_vars

(***************************************************************************)
(* Documents that share topic titles: create_meeting, ingest_data and the  *)
(* two topic lookups (kuzu_manager.py:527-675, 677-715, 886-981)           *)
(***************************************************************************)

\* kuzu_manager.py:694-715.  The rows are those of MATCH (t:Topic) [WHERE ...]
\* LIMIT $lim: every matching topic when there are at most limit of them, else
\* limit of them.
get_all_topics(d, limit, keyword) ==
    LET matching == IF keyword # <<>>
                    THEN {t \in d.Topic :
                            contains(t.title, keyword) \/ contains(t.summary, keyword)}
                    ELSE d.Topic
        rows == IF Cardinality(matching) <= limit THEN matching
                ELSE CHOOSE R \in SUBSET matching : Cardinality(R) = limit
    IN  {[id |-> r.title, title |-> decode_scoped_value(r.title), summary |-> r.summary,
          meeting_id |-> extract_scope_from_value(r.title)] : r \in rows}

MaxDocCalls == 4

\* Document ids: two as the pipeline makes them (pipeline.py:136), one ending in
\* ':' and one containing "::".
DocIds ==
    {<<"m", "_", "1">>, <<"m", "_", "2">>, <<"m", "_", "1", ":">>, <<"m", "_", ":", ":", "1">>}

TopicTitles == {<<"a">>, <<" ", "b">>}

\* The analysis result of a document with one topic; the topic's summary is the
\* document's id, so that every document has a summary of its own.
TopicPayload(meeting_id, title) ==
    [EmptyPayload EXCEPT !.topics = <<[title |-> title, summary |-> meeting_id,
                                       proposer |-> None]>>]

DocsInit ==
    /\ db = EmptyDb
    /\ dc_ingested = {}
    /\ dc_calls = 0
    /\ NotDocsIdle

\* kuzu_manager.py:677-684
DocCreateMeeting ==
    /\ dc_calls < MaxDocCalls
    /\ \E meeting_id \in DocIds :
        db' = create_meeting(db, meeting_id, "title", "date", "file", 0).db
    /\ dc_calls' = dc_calls + 1
    /\ UNCHANGED dc_ingested
    /\ UNCHANGED notDocsVars

\* kuzu_manager.py:527-675 for a payload with one topic.
DocIngestData ==
    /\ dc_calls < MaxDocCalls
    /\ \E meeting_id \in DocIds, title \in TopicTitles :
        /\ db' = ingest_data(db, TopicPayload(meeting_id, title), meeting_id, 0).db
        /\ dc_ingested' = dc_ingested \cup
                {[id |-> meeting_id, title |-> strip(title), summary |-> meeting_id,
                  linked |-> HasNode(db, "Meeting", meeting_id)]}
    /\ dc_calls' = dc_calls + 1
    /\ UNCHANGED notDocsVars

DocsNext ==
    \/ DocCreateMeeting
    \/ DocIngestData

SpecDocs == DocsInit /\ [][DocsNext]_vars

(***************************************************************************)
(* PATCH /nodes/update (server.py:71-77, 424-490)                          *)
(*                                                                         *)
(* A request's fields are a function from field names to values.  The      *)
(* response is its HTTP status: 200, or the status of the HTTPException;   *)
(* 500 stands for an exception of the store.                               *)
(***************************************************************************)

\* server.py:71-77
NODE_UPDATE_RULES ==
    [Topic |-> [pk |-> "title", fields |-> {"summary"}],
     Task |-> [pk |-> "description", fields |-> {"deadline", "status"}],
     Person |-> [pk |-> "name", fields |-> {"role"}],
     Meeting |-> [pk |-> "id", fields |-> {"title", "date", "source_file"}],
     Decision |-> [pk |-> "description", fields |-> {}]]

\* str(value).strip() on the status texts of the model.
StripStatus(raw) == IF raw = " done " THEN "done" ELSE raw

\* MATCH (n:T {pk: $node_id}) SET n.f = $val_f, ... RETURN count(n): the store
\* raises for a property the table does not have; otherwise the matching row,
\* if there is one, is rewritten and counted.
SetQuery(d, node_type, pk, node_id, fields, exec_raises) ==
    LET hit == {r \in d[node_type] : r[pk] = node_id}
        row == CHOOSE r \in hit : TRUE
        written == [k \in DOMAIN row |-> IF k \in DOMAIN fields THEN fields[k] ELSE row[k]]
    IN  IF exec_raises \/ \E r \in d[node_type] : ~(DOMAIN fields \subseteq DOMAIN r)
        THEN [raised |-> TRUE, db |-> d, updated |-> 0]
        ELSE IF hit = {} THEN [raised |-> FALSE, db |-> d, updated |-> 0]
        ELSE [raised |-> FALSE,
              db |-> [d EXCEPT ![node_type] = (@ \ hit) \cup {written}],
              updated |-> 1]

\* update_node from the first query on (server.py:452-490), shared by
\* update_node and its variant below.
RunUpdate(d, node_type, node_id, fields, exec_raises) ==
    LET rule == NODE_UPDATE_RULES[node_type]
        first == SetQuery(d, node_type, rule.pk, node_id, fields, exec_raises)
        scoped_matches ==
            {r[rule.pk] : r \in {x \in d[node_type] :
                x[rule.pk] = node_id \/ decode_scoped_value(x[rule.pk]) = node_id}}
        retry == SetQuery(d, node_type, rule.pk, CHOOSE k \in scoped_matches : TRUE,
                          fields, FALSE)
    IN  IF first.raised THEN [status |-> 500, db |-> d]
        ELSE IF first.updated # 0 THEN [status |-> 200, db |-> first.db]
        ELSE IF node_type \notin {"Topic", "Task"} THEN [status |-> 404, db |-> d]
        ELSE IF Cardinality(scoped_matches) > 1 THEN [status |-> 409, db |-> d]
        ELSE IF Cardinality(scoped_matches) = 1 /\ retry.updated # 0
        THEN [status |-> 200, db |-> retry.db]
        ELSE [status |-> 404, db |-> d]

\* update_node without the check of the field names against the allow-list.
update_node_no_allow_list(d, exists, node_type, node_id, fields, exec_raises) ==
    IF ~exists THEN [status |-> 404, db |-> d]
    ELSE IF node_type \notin DOMAIN NODE_UPDATE_RULES THEN [status |-> 400, db |-> d]
    ELSE IF DOMAIN fields = {} THEN [status |-> 400, db |-> d]
    ELSE IF node_type = "Task" /\ "status" \in DOMAIN fields
                /\ StripStatus(fields["status"]) \notin ALLOWED_TASK_STATUSES
    THEN [status |-> 400, db |-> d]
    ELSE RunUpdate(d, node_type, node_id, fields, exec_raises)

\* server.py:424-490.  exists: the chat's database file exists; exec_raises:
\* the store raises on the first query.
update_node(d, exists, node_type, node_id, fields, exec_raises) ==
    IF ~exists THEN [status |-> 404, db |-> d]
    ELSE IF node_type \notin DOMAIN NODE_UPDATE_RULES THEN [status |-> 400, db |-> d]
    ELSE IF DOMAIN fields = {} THEN [status |-> 400, db |-> d]
    ELSE IF \E name \in DOMAIN fields : name \notin NODE_UPDATE_RULES[node_type].fields
    THEN [status |-> 400, db |-> d]
    ELSE IF node_type = "Task" /\ "status" \in DOMAIN fields
                /\ StripStatus(fields["status"]) \notin ALLOWED_TASK_STATUSES
    THEN [status |-> 400, db |-> d]
    ELSE RunUpdate(d, node_type, node_id, fields, exec_raises)

MaxPatches == 1
MaxFields == 2

\* The field names a request for a node type draws from: the properties of
\* the type, a property of another type, and a name that no table has.
FieldNames(node_type) ==
    CASE node_type = "Topic" -> {"title", "summary", "role", "x"}
      [] node_type = "Task" -> {"description", "deadline", "status", "summary", "x"}
      [] node_type = "Person" -> {"name", "role", "summary", "x"}
      [] node_type = "Meeting" -> {"id", "title", "date", "source_file", "summary", "x"}
      [] node_type = "Decision" -> {"description", "summary", "x"}
      [] OTHER -> {"id", "summary", "x"}

NodeTypes == {"Topic", "Task", "Person", "Meeting", "Decision", "Utterance"}

\* A plain topic and task text, its scoped key, a meeting id, a person, and a
\* key that no node has.
NodeIds ==
    {<<"a">>, <<"m", "_", "1", ":", ":", "a">>, <<"m", "_", "1">>, <<"A">>, <<"z">>}

StatusValues == {"done", " done ", "bogus"}

\* The value a request gives to a field: text of the kind the property holds.
NewValue(node_type, name, status) ==
    IF name = "status" THEN status
    ELSE IF name \in {"summary", "role", "description", "name", "id", "x"} THEN <<"n">>
    ELSE IF name = "title" /\ node_type # "Meeting" THEN <<"n">>
    ELSE "new"

\* Two documents that share the plain topic title of the sample store.
TwoTopicStore ==
    LET m == create_meeting(SampleStore, <<"m", "_", "2">>, "title", "date", "file", 0).db
    IN  ingest_data(m, TopicPayload(<<"m", "_", "2">>, <<"a">>), <<"m", "_", "2">>, 0).db

PatchStores == {EmptyDb, SampleStore, TwoTopicStore}

PatchInit ==
    /\ db \in PatchStores
    /\ pt_exists \in BOOLEAN
    /\ pt_exists = FALSE => db = EmptyDb
    /\ pt_last = [status |-> 0]
    /\ pt_calls = 0
    /\ NotPatchIdle

UpdateNode ==
    /\ pt_calls < MaxPatches
    /\ \E node_type \in NodeTypes, node_id \in NodeIds, exec_raises \in BOOLEAN :
       \E names \in {S \in SUBSET FieldNames(node_type) : Cardinality(S) <= MaxFields} :
       \E status \in IF "status" \in names THEN StatusValues ELSE {"done"} :
        LET fields == [name \in names |-> NewValue(node_type, name, status)]
            r == update_node(db, pt_exists, node_type, node_id, fields, exec_raises)
        IN  /\ db' = r.db
            /\ pt_last' = [status |-> r.status, node_type |-> node_type, names |-> names,
                           before |-> db]
    /\ pt_calls' = pt_calls + 1
    /\ UNCHANGED pt_exists
    /\ UNCHANGED notPatchVars

PatchNext == UpdateNode

SpecPatch == PatchInit /\ [][PatchNext]_vars

(***************************************************************************)
(* Fusion search (hybrid_rag.py:163-392) and the store's read functions    *)
(* (kuzu_manager.py:694-884, 983-1004)                                     *)
(*                                                                         *)
(* A result list is the set of its items; a LIMIT keeps every row when     *)
(* there are at most that many and that many of them otherwise.  The text  *)
(* of the module is ASCII: the non-ASCII intent tokens of hybrid_search    *)
(* are left out and its headings and sentinel are written in English.      *)
(***************************************************************************)

\* str.lower, per character.
LowerChar(c) ==
    IF \E k \in DOMAIN LowerToUpper : LowerToUpper[k] = c
    THEN CHOOSE k \in DOMAIN LowerToUpper : LowerToUpper[k] = c
    ELSE c
lower(s) == [i \in 1..Len(s) |-> LowerChar(s[i])]

\* The characters of the property values that the model writes as one word.
AtomText(a) ==
    CASE a = "title" -> <<"t", "i", "t", "l", "e">>
      [] a = "date" -> <<"d", "a", "t", "e">>
      [] a = "file" -> <<"f", "i", "l", "e">>
      [] a = "TBD" -> <<"T", "B", "D">>
      [] a = "pending" -> <<"p", "e", "n", "d", "i", "n", "g">>
      [] a = "in_progress" -> <<"i", "n", "_", "p", "r", "o", "g", "r", "e", "s", "s">>
      [] a = "done" -> <<"d", "o", "n", "e">>
      [] a = "blocked" -> <<"b", "l", "o", "c", "k", "e", "d">>
      [] a = "d" -> <<"d">>
      [] OTHER -> <<"?">>

\* LIMIT $lim
LimitRows(rows, limit) ==
    IF Cardinality(rows) <= limit THEN rows
    ELSE CHOOSE R \in SUBSET rows : Cardinality(R) = limit

\* kuzu_manager.py:983-1004.  array_cosine_similarity is positive for the model's
\* non-zero vectors and not positive for a zero vector; a failure of the query is
\* caught and gives no rows.
search_similar_utterances(d, query_vector, top_k, query_raises) ==
    IF query_raises THEN {}
    ELSE {[id |-> u.id, text |-> u.text, start |-> u.startTime, end |-> u.endTime]
            : u \in LimitRows({x \in d.Utterance :
                                x.embedding # ZeroVector /\ query_vector # ZeroVector}, top_k)}

\* kuzu_manager.py:717-740.  The WHERE clause belongs to the OPTIONAL MATCH: it
\* selects the assignees of a task, every task has a row.
get_all_tasks(d, limit, keyword) ==
    LET assignees(t) ==
            {e[1] : e \in {x \in d.ASSIGNED_TO :
                /\ x[2] = t.description
                /\ keyword # <<>> =>
                     \/ contains(t.description, keyword)
                     \/ contains(AtomText(t.status), keyword)
                     \/ contains(x[1], keyword)}}
        rows == UNION {IF assignees(t) = {} THEN {<<t, None>>}
                       ELSE {<<t, Some(a)>> : a \in assignees(t)} : t \in d.Task}
    IN  {[id |-> r[1].description, description |-> decode_scoped_value(r[1].description),
          deadline |-> r[1].deadline, status |-> normalize_task_status(r[1].status),
          assignee |-> r[2], meeting_id |-> extract_scope_from_value(r[1].description)]
            : r \in LimitRows(rows, limit)}

\* kuzu_manager.py:742-754
get_person_tasks(d, person_name, limit) ==
    {[id |-> t.description, description |-> decode_scoped_value(t.description),
      deadline |-> t.deadline, status |-> normalize_task_status(t.status),
      assignee |-> None, meeting_id |-> extract_scope_from_value(t.description)]
        : t \in LimitRows({x \in d.Task : <<person_name, x.description>> \in d.ASSIGNED_TO},
                          limit)}

\* kuzu_manager.py:756-792
get_topic_decisions(d, topic_title, limit) ==
    LET target == strip(topic_title)
        matching_topic_keys ==
            {t.title : t \in {x \in d.Topic :
                x.title = target \/ decode_scoped_value(x.title) = target}}
        found == {e[2] : e \in {x \in d.RESULTED_IN : x[1] \in matching_topic_keys}}
    IN  IF target = <<>> THEN {}
        ELSE {[description |-> decode_scoped_value(raw)] : raw \in LimitRows(found, limit)}

\* kuzu_manager.py:794-807
get_all_people(d, limit, keyword) ==
    {[name |-> r.name, role |-> r.role]
        : r \in LimitRows(IF keyword # <<>>
                          THEN {x \in d.Person :
                                    contains(x.name, keyword) \/ contains(x.role, keyword)}
                          ELSE d.Person, limit)}

\* kuzu_manager.py:809-823
get_all_meetings(d, limit, keyword) ==
    {[id |-> r.id, title |-> r.title, date |-> r.date, source_file |-> r.source_file]
        : r \in LimitRows(IF keyword # <<>>
                          THEN {x \in d.Meeting :
                                    \/ contains(AtomText(x.title), keyword)
                                    \/ contains(AtomText(x.date), keyword)
                                    \/ contains(AtomText(x.source_file), keyword)}
                          ELSE d.Meeting, limit)}

\* kuzu_manager.py:825-860; entity_type "" is no filter.
get_all_entities(d, limit, keyword, entity_type) ==
    {[name |-> decode_scoped_value(r.name), entity_type |-> r.entity_type,
      description |-> r.description, meeting_id |-> extract_scope_from_value(r.name)]
        : r \in LimitRows({x \in d.Entity :
                            /\ keyword # <<>> =>
                                 \/ contains(x.name, keyword)
                                 \/ contains(AtomText(x.description), keyword)
                            /\ entity_type # "" => x.entity_type = entity_type}, limit)}

\* kuzu_manager.py:862-884
get_entity_relations(d, entity_name, limit) ==
    {[source |-> decode_scoped_value(e[1]), relation_type |-> e[3],
      target |-> decode_scoped_value(e[2])]
        : e \in LimitRows({x \in d.RELATED_TO :
                            entity_name # <<>> =>
                                contains(x[1], entity_name) \/ contains(x[2], entity_name)},
                          limit)}

\* hybrid_rag.py:170-176
graph_search_tasks(d, person_name, keyword, limit) ==
    IF person_name # <<>> THEN get_person_tasks(d, person_name, limit)
    ELSE get_all_tasks(d, limit, keyword)

\* hybrid_rag.py:178-196.  In the keyword query, too, the WHERE clause belongs
\* to the OPTIONAL MATCH: every decision has a row.
graph_search_decisions(d, topic_title, keyword, limit) ==
    IF topic_title # <<>> THEN get_topic_decisions(d, topic_title, limit)
    ELSE {[description |-> r.description] : r \in LimitRows(d.Decision, limit)}

\* The tokens hybrid_search looks for in the lower-cased query (hybrid_rag.py:228-235).
TOK_task == <<"t", "a", "s", "k">>
TOK_todo == <<"t", "o", "d", "o">>
TOK_decision == <<"d", "e", "c", "i", "s", "i", "o", "n">>
TOK_person == <<"p", "e", "r", "s", "o", "n">>
TOK_meeting == <<"m", "e", "e", "t", "i", "n", "g">>
TOK_entity == <<"e", "n", "t", "i", "t", "y">>

\* The headings of merged_context, and the text that stands for no result.
SectionOrder ==
    <<"## utterances", "## topics", "## entities", "## entity relations", "## tasks",
      "## decisions", "## people", "## meetings">>
NoSearchResult == <<[heading |-> "(no search result)", items |-> {}]>>

\* ContextParts without the entity relations.
ContextParts_no_relations(groups) ==
    LET part(i) == IF groups[i] # {}
                   THEN <<[heading |-> SectionOrder[i], items |-> groups[i]]>>
                   ELSE <<>>
    IN  part(1) \o part(2) \o part(3) \o part(5) \o part(6) \o part(7) \o part(8)

\* hybrid_rag.py:319-386: context_parts, a heading and its lines for each group
\* that is not empty, in this order.
ContextParts(groups) ==
    LET part(i) == IF groups[i] # {}
                   THEN <<[heading |-> SectionOrder[i], items |-> groups[i]]>>
                   ELSE <<>>
    IN  part(1) \o part(2) \o part(3) \o part(4) \o part(5) \o part(6) \o part(7) \o part(8)

\* hybrid_rag.py:388: "\n".join(context_parts) if context_parts else the sentinel
MergedContext(groups) ==
    IF ContextParts(groups) # <<>> THEN ContextParts(groups) ELSE NoSearchResult

\* hybrid_rag.py:223-392.  encode_raises: the embedding model fails on the query;
\* query_raises: the store fails on the similarity query.
HybridRAG_hybrid_search(d, raw_query, top_k, graph_k, encode_raises, query_raises) ==
    LET query == strip(raw_query)
        q == lower(query)
        ask_tasks == contains(q, TOK_task) \/ contains(q, TOK_todo)
        ask_decisions == contains(q, TOK_decision)
        ask_people == contains(q, TOK_person)
        ask_meetings == contains(q, TOK_meeting)
        ask_entities == contains(q, TOK_entity)
        no_intent == ~ask_tasks /\ ~ask_decisions /\ ~ask_people /\ ~ask_meetings
        min(a, b) == IF a < b THEN a ELSE b
        vector_results == search_similar_utterances(d, AVector, top_k, query_raises)
        topics0 == get_all_topics(d, graph_k, query)
        tasks == IF ask_tasks THEN graph_search_tasks(d, <<>>, query, graph_k)
                 ELSE IF no_intent THEN graph_search_tasks(d, <<>>, <<>>, min(3, graph_k))
                 ELSE {}
        decisions == IF ask_decisions THEN graph_search_decisions(d, <<>>, query, graph_k)
                     ELSE IF no_intent
                     THEN graph_search_decisions(d, <<>>, <<>>, min(3, graph_k))
                     ELSE {}
        people0 == IF ask_people THEN get_all_people(d, graph_k, query) ELSE {}
        meetings == IF ask_meetings THEN get_all_meetings(d, graph_k, query) ELSE {}
        entities0 == get_all_entities(d, graph_k, IF ask_entities THEN query ELSE <<>>, "")
        entity_relations ==
            get_entity_relations(d, IF ask_entities THEN query ELSE <<>>, graph_k)
        entities == IF entities0 = {} /\ ~ask_entities
                    THEN get_all_entities(d, min(5, graph_k), <<>>, "")
                    ELSE entities0
        topics ==
            {[id |-> t.id, title |-> t.title, summary |-> t.summary,
              meeting_id |-> t.meeting_id,
              proposers |-> {e[1] : e \in {x \in d.PROPOSED : x[2] = t.id}},
              decisions |-> {decode_scoped_value(e[2]) :
                                e \in {x \in d.RESULTED_IN : x[1] = t.id}}]
                : t \in topics0}
        people ==
            {[name |-> p.name, role |-> p.role,
              proposed_topics |-> {decode_scoped_value(e[2]) :
                                    e \in {x \in d.PROPOSED : x[1] = p.name}},
              assigned_tasks |-> {decode_scoped_value(e[2]) :
                                    e \in {x \in d.ASSIGNED_TO : x[1] = p.name}}]
                : p \in people0}
        groups == <<vector_results, topics, entities, entity_relations, tasks, decisions,
                    people, meetings>>
    IN  IF encode_raises THEN [raised |-> TRUE]
        ELSE [raised |-> FALSE, groups |-> groups, merged_context |-> MergedContext(groups)]

(***************************************************************************)
(* The registered tools (agent/tools/*.py) run through the registry        *)
(* (agent/tools/__init__.py:30-39)                                         *)
(*                                                                         *)
(* A handler's result is a record: whether it raised, the string it        *)
(* returned (described by its kind and what it was built from), and the    *)
(* store after it.                                                         *)
(***************************************************************************)

\* The clauses of the query language that write to the store.
WriteClauses ==
    {<<"C", "R", "E", "A", "T", "E">>, <<"M", "E", "R", "G", "E">>, <<"S", "E", "T">>,
     <<"D", "E", "L", "E", "T", "E">>}

\* kuzu_manager.py:686-692: conn.execute of a query.  A query with a write
\* clause changes the rows; the change of the model is the loss of every Topic
\* and a new Person.
execute_cypher(d, query) ==
    IF \E w \in WriteClauses : WordSearch(w, upper(query))
    THEN [d EXCEPT !.Topic = {},
                   !.Person = @ \cup {[name |-> <<"w">>, role |-> STR_Member]}]
    ELSE d

RECURSIVE ExecuteQueries(_, _)
ExecuteQueries(d, queries) ==
    IF queries = <<>> THEN d
    ELSE ExecuteQueries(execute_cypher(d, Head(queries)), Tail(queries))

\* The parameters of HybridRAG.hybrid_search (hybrid_rag.py:223).
HybridSearchParameters == {"query", "db", "top_k", "graph_k"}

\* A call rag.hybrid_search(query, db, **keywords): TypeError for a keyword
\* that is not a parameter.
Call_hybrid_search(d, query, top_k, graph_k, keywords, encode_raises, query_raises) ==
    IF ~(keywords \subseteq HybridSearchParameters) THEN [raised |-> TRUE]
    ELSE HybridRAG_hybrid_search(d, query, top_k, graph_k, encode_raises, query_raises)

\* args.get("query") or ""
QueryArg(args) == IF args.query = None THEN <<>> ELSE args.query[1]

\* search_tools.py:14-30
search_by_meaning(args, d, env) ==
    LET results == search_similar_utterances(d, AVector, 5, env.query_raises)
    IN  IF env.encode_raises THEN [raised |-> TRUE, out |-> [kind |-> "none"], db |-> d]
        ELSE [raised |-> FALSE,
              out |-> IF results = {} THEN [kind |-> "nothing found"]
                      ELSE [kind |-> "utterances", items |-> results],
              db |-> d]

\* search_tools.py:37-259: the entity type, given or taken from the keyword,
\* selects the search; its items are rendered, or a message when there are none.
search_by_structure(args, d, env) ==
    LET keyword == strip(QueryArg(args))
        q == lower(keyword)
        entity_type ==
            IF args.entity_type # "" THEN args.entity_type
            ELSE IF contains(q, TOK_task) \/ contains(q, TOK_todo) THEN "task"
            ELSE IF contains(q, TOK_decision) THEN "decision"
            ELSE IF contains(q, TOK_person) THEN "person"
            ELSE IF contains(q, TOK_meeting) THEN "meeting"
            ELSE IF contains(q, TOK_entity) THEN "entity"
            ELSE "topic"
        items ==
            CASE entity_type = "topic" -> get_all_topics(d, 10, keyword)
              [] entity_type = "task" -> graph_search_tasks(d, <<>>, keyword, 10)
              [] entity_type = "decision" -> graph_search_decisions(d, <<>>, keyword, 10)
              [] entity_type = "person" -> get_all_people(d, 10, keyword)
              [] entity_type = "meeting" -> get_all_meetings(d, 10, keyword)
              [] entity_type = "entity" -> get_all_entities(d, 10, keyword, "")
              [] OTHER -> {}
    IN  [raised |-> FALSE,
         out |-> IF entity_type \notin {"topic", "task", "decision", "person", "meeting",
                                        "entity"}
                 THEN [kind |-> "unknown entity_type"]
                 ELSE IF items = {} THEN [kind |-> "nothing registered"]
                 ELSE [kind |-> entity_type, items |-> items],
         db |-> d]

\* search_tools.py:262-274
\* search_tools.py:274: result.get("merged_context", ...)
MergedContextOf(result, d) ==
    IF result.raised THEN [raised |-> TRUE, out |-> [kind |-> "none"], db |-> d]
    ELSE [raised |-> FALSE,
          out |-> [kind |-> "merged_context", context |-> result.merged_context],
          db |-> d]

hybrid_search(args, d, env) ==
    MergedContextOf(Call_hybrid_search(d, strip(QueryArg(args)), 5, 8,
                                       {"top_k", "graph_k", "search_hints"},
                                       env.encode_raises, env.query_raises), d)

\* search_by_cypher handing the generated query to the store as it is.
search_by_cypher_unvalidated(args, d, env) ==
    IF strip(QueryArg(args)) = <<>> \/ env.generated = None
    THEN [raised |-> FALSE, out |-> [kind |-> "empty question"], db |-> d]
    ELSE [raised |-> FALSE, out |-> [kind |-> "cypher rows", query |-> env.generated[1]],
          db |-> execute_cypher(d, env.generated[1])]

\* cypher_tools.py:22-45.  env.generated is what _generate_cypher makes of the
\* question; the store executes the queries cypher_search hands to it.
search_by_cypher(args, d, env) ==
    LET r == cypher_search(env.generated, 20, env.execute_raises)
    IN  IF strip(QueryArg(args)) = <<>>
        THEN [raised |-> FALSE, out |-> [kind |-> "empty question"], db |-> d]
        ELSE [raised |-> FALSE,
              out |-> IF ~r.ok THEN [kind |-> "cypher failed", error |-> r.error]
                      ELSE [kind |-> "cypher rows", query |-> r.query],
              db |-> IF env.execute_raises THEN d ELSE ExecuteQueries(d, r.executed)]

\* meeting_tools.py:15-25
get_meeting_summary_tool(args, d, env) ==
    LET meetings == get_all_meetings(d, 20, <<>>)
        summary == get_meeting_summary(d, args.meeting_id)
    IN  [raised |-> FALSE,
         out |-> IF args.meeting_id = <<>>
                 THEN IF meetings = {} THEN [kind |-> "no meetings"]
                      ELSE [kind |-> "meeting list", items |-> meetings]
                 ELSE IF ~summary.found THEN [kind |-> "meeting not found"]
                 ELSE [kind |-> "summary", summary |-> summary],
         db |-> d]

\* email_tools.py:13-25; the subject is the query of the search.
\* email_tools.py:18-25: the draft request built around the search result.
DraftRequest(result, subject, d) ==
    IF result.raised THEN [raised |-> TRUE, out |-> [kind |-> "none"], db |-> d]
    ELSE [raised |-> FALSE,
          out |-> [kind |-> "email_draft_request", subject |-> subject,
                   context |-> result.merged_context],
          db |-> d]

draft_email(args, d, env) ==
    DraftRequest(Call_hybrid_search(d, QueryArg(args), 3, 8, {"top_k"},
                                    env.encode_raises, env.query_raises),
                 QueryArg(args), d)

\* general_tools.py:12-13
direct_answer(args, d, env) == [raised |-> FALSE, out |-> [kind |-> "empty"], db |-> d]

\* The handler registered under a name.
Handler(name, args, d, env) ==
    CASE name = "search_by_meaning" -> search_by_meaning(args, d, env)
      [] name = "search_by_structure" -> search_by_structure(args, d, env)
      [] name = "hybrid_search" -> hybrid_search(args, d, env)
      [] name = "search_by_cypher" -> search_by_cypher(args, d, env)
      [] name = "get_meeting_summary" -> get_meeting_summary_tool(args, d, env)
      [] name = "draft_email" -> draft_email(args, d, env)
      [] OTHER -> direct_answer(args, d, env)

\* tools/__init__.py:30-39 for a name that is a string: the handler's string,
\* or the tool-execution-error string when the handler raised.
\* tools/__init__.py:34-39: what execute returns for the outcome h of the handler.
Returned(h) ==
    IF h.raised THEN [out |-> [kind |-> "tool execution error"], db |-> h.db]
    ELSE [out |-> h.out, db |-> h.db]

ToolRegistry_execute(name, args, d, env) ==
    IF name \notin REGISTERED_TOOLS
    THEN [out |-> [kind |-> "unknown tool"], db |-> d]
    ELSE Returned(Handler(name, args, d, env))

MaxToolCalls == 1

STR_zz == <<"z", "z">>

\* The queries: missing, empty, blank, the text of a stored topic, texts that
\* name a kind of record, and a text that matches nothing.
ToolQueries ==
    {None, Some(<<>>), Some(<<" ">>), Some(<<"a">>), Some(TOK_task),
     Some(<<"D", "e", "c", "i", "s", "i", "o", "n", " ">> \o TOK_person),
     Some(TOK_meeting), Some(TOK_entity), Some(STR_zz)}

\* What the language model makes of a question for search_by_cypher.
GeneratedQueries ==
    {None,
     Some(KW_MATCH \o <<" ", "x", " ">> \o KW_RETURN),
     Some(KW_MATCH \o <<" ", "x", " ">> \o KW_RETURN \o <<";">>),
     Some(KW_MATCH \o <<" ", "d", "e", "l", "e", "t", "e", " ">> \o KW_RETURN),
     Some(KW_MATCH \o <<" ", "S", "E", "T", " ">> \o KW_RETURN),
     Some(<<"C", "R", "E", "A", "T", "E", " ", "x">>),
     Some(KW_MATCH \o <<" ", "x", ";", "D", "E", "L", "E", "T", "E", " ">> \o KW_RETURN)}

\* The arguments and conditions a tool depends on; the others are fixed.
ToolCalls ==
    LET call(name, query, hints, etype, mid, e, q, x, g) ==
            [name |-> name,
             args |-> [query |-> query, search_hints |-> hints, entity_type |-> etype,
                       meeting_id |-> mid],
             env |-> [encode_raises |-> e, query_raises |-> q, execute_raises |-> x,
                      generated |-> g]]
    IN  {call("search_by_meaning", query, "absent", "", <<>>, e, q, FALSE, None)
            : query \in ToolQueries, e \in BOOLEAN, q \in BOOLEAN}
        \cup {call("search_by_structure", query, "absent", etype, <<>>, FALSE, FALSE, FALSE, None)
            : query \in ToolQueries,
              etype \in {"", "topic", "task", "decision", "person", "meeting", "entity", "x"}}
        \cup {call("hybrid_search", query, hints, "", <<>>, e, q, FALSE, None)
            : query \in ToolQueries, hints \in {"absent", "list", "not a list"},
              e \in BOOLEAN, q \in BOOLEAN}
        \cup {call("search_by_cypher", query, "absent", "", <<>>, FALSE, FALSE, x, g)
            : query \in {None, Some(<<"a">>)}, x \in BOOLEAN, g \in GeneratedQueries}
        \cup {call("get_meeting_summary", None, "absent", "", mid, FALSE, FALSE, FALSE, None)
            : mid \in {<<>>, <<"m", "_", "1">>, <<"z">>}}
        \cup {call("draft_email", query, "absent", "", <<>>, e, q, FALSE, None)
            : query \in ToolQueries, e \in BOOLEAN, q \in BOOLEAN}
        \cup {call(name, None, "absent", "", <<>>, FALSE, FALSE, FALSE, None)
            : name \in {"direct_answer", "no_such_tool"}}

ToolStores == {EmptyDb, SampleStore, TwoTopicStore}

ToolsInit ==
    /\ db \in ToolStores
    /\ tl_last = [op |-> "none"]
    /\ tl_calls = 0
    /\ NotToolsIdle

\* rag.hybrid_search(query, db) on the open store.
HybridSearch ==
    /\ tl_calls < MaxToolCalls
    /\ \E query \in ToolQueries, e \in BOOLEAN, q \in BOOLEAN :
        LET r == HybridRAG_hybrid_search(db, QueryArg([query |-> query]), 5, 8, e, q)
        IN  tl_last' = [op |-> "hybrid_search", query |-> query, encode_raises |-> e,
                        query_raises |-> q, before |-> db, result |-> r]
    /\ tl_calls' = tl_calls + 1
    /\ UNCHANGED db
    /\ UNCHANGED notToolsVars

\* The store and the record of the call after a tool call c that returned r.
Executed(c, r) ==
    /\ db' = r.db
    /\ tl_last' = [op |-> "execute", name |-> c.name, args |-> c.args,
                   env |-> c.env, before |-> db, out |-> r.out]

\* tool_registry.execute(name, args, db, rag), as tool_executor_node calls it.
ExecuteTool ==
    /\ tl_calls < MaxToolCalls
    /\ \E c \in ToolCalls : Executed(c, ToolRegistry_execute(c.name, c.args, db, c.env))
    /\ tl_calls' = tl_calls + 1
    /\ UNCHANGED notToolsVars

ToolsNext == HybridSearch \/ ExecuteTool

SpecTools == ToolsInit /\ [][ToolsNext]_vars

(***************************************************************************)
(* Embedding model cache (embedding.py:22-39)                              *)
(*                                                                         *)
(* Each thread calls get_embedder once.  A step is one bytecode-level      *)
(* operation that the interpreter runs without switching threads: a        *)
(* membership test, the lock's acquire or release, the construction, the   *)
(* dictionary store, the dictionary read of the return statement.          *)
(***************************************************************************)

NumThreads == 3
Threads == 1..NumThreads
ModelNames == {"model_a", "model_b"}

At(t, place) == em_pc[t].at = place
Goto(t, place) == em_pc' = [em_pc EXCEPT ![t] = [at |-> place, obj |-> 0]]

\* The test under the lock left out: every thread that acquires the lock loads.
InCacheUnderLock_skipped(cache, model_name) == FALSE

\* embedding.py:33: model_name not in _cache, inside the with block (negated).
InCacheUnderLock(cache, model_name) == cache[model_name] # 0

EmbedInit ==
    /\ em_pc = [t \in Threads |-> [at |-> "idle", obj |-> 0]]
    /\ em_arg = [t \in Threads |-> ""]
    /\ em_cache = [n \in ModelNames |-> 0]
    /\ em_lock = 0
    /\ em_built = [n \in ModelNames |-> {}]
    /\ em_ret = [t \in Threads |-> 0]
    /\ NotEmbedIdle

\* get_embedder(model_name) is called.
CallGetEmbedder(t) ==
    /\ At(t, "idle")
    /\ \E n \in ModelNames : em_arg' = [em_arg EXCEPT ![t] = n]
    /\ Goto(t, "first_check")
    /\ UNCHANGED <<em_cache, em_lock, em_built, em_ret>>
    /\ UNCHANGED notEmbedVars

\* embedding.py:31  if model_name not in _cache:
FirstCheck(t) ==
    /\ At(t, "first_check")
    /\ IF em_cache[em_arg[t]] = 0 THEN Goto(t, "acquire") ELSE Goto(t, "return")
    /\ UNCHANGED <<em_arg, em_cache, em_lock, em_built, em_ret>>
    /\ UNCHANGED notEmbedVars

\* embedding.py:32  with _lock:  (blocks while another thread holds the lock)
Acquire(t) ==
    /\ At(t, "acquire")
    /\ em_lock = 0
    /\ em_lock' = t
    /\ Goto(t, "second_check")
    /\ UNCHANGED <<em_arg, em_cache, em_built, em_ret>>
    /\ UNCHANGED notEmbedVars

\* embedding.py:33  if model_name not in _cache:
SecondCheck(t) ==
    /\ At(t, "second_check")
    /\ IF InCacheUnderLock(em_cache, em_arg[t]) THEN Goto(t, "release")
       ELSE Goto(t, "construct")
    /\ UNCHANGED <<em_arg, em_cache, em_lock, em_built, em_ret>>
    /\ UNCHANGED notEmbedVars

\* embedding.py:37  SentenceTransformer(model_name): a new instance, or an
\* exception, which leaves the with block.
Construct(t) ==
    /\ At(t, "construct")
    /\ \/ LET obj == 1 + Cardinality(UNION {em_built[n] : n \in ModelNames})
          IN  /\ em_built' = [em_built EXCEPT ![em_arg[t]] = @ \cup {obj}]
              /\ em_pc' = [em_pc EXCEPT ![t] = [at |-> "store", obj |-> obj]]
       \/ /\ em_pc' = [em_pc EXCEPT ![t] = [at |-> "release_raising", obj |-> 0]]
          /\ UNCHANGED em_built
    /\ UNCHANGED <<em_arg, em_cache, em_lock, em_ret>>
    /\ UNCHANGED notEmbedVars

\* embedding.py:37  _cache[model_name] = <the instance>
Store(t) ==
    /\ At(t, "store")
    /\ em_cache' = [em_cache EXCEPT ![em_arg[t]] = em_pc[t].obj]
    /\ Goto(t, "release")
    /\ UNCHANGED <<em_arg, em_lock, em_built, em_ret>>
    /\ UNCHANGED notEmbedVars

\* The end of the with block: the lock is released, and an exception of the
\* construction goes on to the caller.
Release(t) ==
    /\ At(t, "release") \/ At(t, "release_raising")
    /\ em_lock' = 0
    /\ IF At(t, "release") THEN Goto(t, "return") ELSE Goto(t, "raised")
    /\ UNCHANGED <<em_arg, em_cache, em_built, em_ret>>
    /\ UNCHANGED notEmbedVars

\* embedding.py:39  return _cache[model_name]
Return(t) ==
    /\ At(t, "return")
    /\ em_ret' = [em_ret EXCEPT ![t] = em_cache[em_arg[t]]]
    /\ Goto(t, "done")
    /\ UNCHANGED <<em_arg, em_cache, em_lock, em_built>>
    /\ UNCHANGED notEmbedVars

EmbedNext ==
    \E t \in Threads :
        \/ CallGetEmbedder(t)
        \/ FirstCheck(t)
        \/ Acquire(t)
        \/ SecondCheck(t)
        \/ Construct(t)
        \/ Store(t)
        \/ Release(t)
        \/ Return(t)

SpecEmbed == EmbedInit /\ [][EmbedNext]_vars

(***************************************************************************)
(* Ingestion of documents: create_meeting, ingest_transcript, ingest_data  *)
(* (kuzu_manager.py:143-208, 527-684) and process (pipeline.py:134-177)    *)
(***************************************************************************)

MaxIngestCalls == 2

\* A second segment that starts later than seg2.
seg4 == [start |-> 2, end |-> 3, text |-> <<"t">>, speaker |-> Some(<<"A">>)]

IgSegmentLists == {<<seg1>>, <<seg1, seg2>>, <<seg3, seg2>>, <<seg1, seg4>>}

\* The callers pass a document id (pipeline.py:147) or none (the default of
\* kuzu_manager.py:147 and :527).
IgMeetingIds == {<<>>} \cup MeetingIds

\* A payload whose topic is proposed by a person that only the task loop, which
\* runs after the topic loop, creates.
LatePersonPayload ==
    [EmptyPayload EXCEPT
        !.topics = <<[title |-> <<"a">>, summary |-> <<"e">>, proposer |-> Some(<<"B">>)]>>,
        !.tasks = <<task1>>]

IgPayloads ==
    {FullPayload, LatePersonPayload,
     [EmptyPayload EXCEPT !.tasks =
        <<[description |-> <<" ">>, deadline |-> "TBD", status |-> "bogus",
           assignee |-> None]>>]}

\* kuzu_manager.py:162: scope = meeting_id or "global"
Scope(meeting_id) == IF meeting_id # <<>> THEN meeting_id ELSE STR_global

\* The scope part of an utterance id: the text between "u_" and the two
\* zero-padded numbers ("_" + 6 digits + "_" + 10 digits).
ScopeOf(id) == SubSeq(id, 3, Len(id) - 18)

\* A document is known by its id; one ingested without id by its transcript.
Document(meeting_id, segments) == <<meeting_id, IF meeting_id = <<>> THEN segments ELSE <<>>>>

\* The utterance id each segment of a call receives (kuzu_manager.py:158-163),
\* with the document, the position and the start in milliseconds it came from.
Made(meeting_id, segments) ==
    {[id |-> u_id(meeting_id, i, segments[i + 1].start),
      doc |-> Document(meeting_id, segments),
      i |-> i,
      ms |-> segments[i + 1].start * 1000] : i \in 0..(Len(segments) - 1)}

IgLast(op, mid, segments, payload, r) ==
    [op |-> op, meeting_id |-> mid, segments |-> segments, payload |-> payload,
     before |-> db, raised |-> r.raised]

IngestInit ==
    /\ db = EmptyDb
    /\ ig_last = [op |-> "none"]
    /\ ig_made = {}
    /\ ig_calls = 0
    /\ NotIngestIdle

\* kuzu_manager.py:677-684
IgCreateMeeting ==
    /\ ig_calls < MaxIngestCalls
    /\ \E mid \in MeetingIds, fault \in 0..1 :
        LET r == create_meeting(db, mid, "title", "date", "file", fault)
        IN  /\ db' = r.db
            /\ ig_last' = IgLast("create_meeting", mid, <<>>, EmptyPayload, r)
    /\ ig_calls' = ig_calls + 1
    /\ UNCHANGED <<ig_made, notIngestVars>>

\* kuzu_manager.py:143-208, with one embedding per segment (pipeline.py:131)
IgIngestTranscript ==
    /\ ig_calls < MaxIngestCalls
    /\ \E segments \in IgSegmentLists, mid \in IgMeetingIds, fault \in 0..1 :
        LET r == ingest_transcript(db, segments, Some(embed(segments)), mid, fault)
        IN  /\ db' = r.db
            /\ ig_last' = IgLast("ingest_transcript", mid, segments, EmptyPayload, r)
            /\ ig_made' = IF r.raised THEN ig_made ELSE ig_made \cup Made(mid, segments)
    /\ ig_calls' = ig_calls + 1
    /\ UNCHANGED notIngestVars

\* kuzu_manager.py:527-675
IgIngestData ==
    /\ ig_calls < MaxIngestCalls
    /\ \E a \in IgPayloads, mid \in IgMeetingIds, fault \in 0..1 :
        LET r == ingest_data(db, a, mid, fault)
        IN  /\ db' = r.db
            /\ ig_last' = IgLast("ingest_data", mid, <<>>, a, r)
    /\ ig_calls' = ig_calls + 1
    /\ UNCHANGED <<ig_made, notIngestVars>>

\* pipeline.py:134-177: the document id is the current time to the microsecond
\* (pipeline.py:136), so it is new to the store; extraction yields the payload
\* or nothing.
IgProcess ==
    /\ ig_calls < MaxIngestCalls
    /\ \E segments \in IgSegmentLists, a \in {FullPayload},
          outcome \in {"none", "extract_empty"},
          mid \in {m \in MeetingIds : ~HasNode(db, "Meeting", m)} :
        LET r == process(db, segments, a, mid, "title", outcome, 0)
        IN  /\ db' = r.db
            /\ ig_last' = IgLast("process", mid, segments,
                                 IF outcome = "none" THEN a ELSE EmptyPayload, r)
            /\ ig_made' = ig_made \cup Made(mid, segments)
    /\ ig_calls' = ig_calls + 1
    /\ UNCHANGED notIngestVars

IngestNext ==
    \/ IgCreateMeeting
    \/ IgIngestTranscript
    \/ IgIngestData
    \/ IgProcess

SpecIngest == IngestInit /\ [][IngestNext]_vars

(***************************************************************************)
(* Scoped keys: the specification                                          *)
(***************************************************************************)

\* Bounds and alphabets of the scoped-key inputs.
MaxIdLen == 3
MaxTextLen == 3
IdChars == {"m", "_", ":"}
TextChars == {"a", ":", " "}

ScopedInit ==
    /\ sv_meeting_id \in SeqsUpTo(IdChars, MaxIdLen)
    /\ sv_value \in SeqsUpTo(TextChars, MaxTextLen)
    /\ sv_key = <<>>
    /\ sv_plain = <<>>
    /\ sv_scope = <<>>
    /\ sv_pc = "input"
    /\ NotScopedIdle

BuildScopedValue ==
    /\ sv_pc = "input"
    /\ sv_key' = build_scoped_value(sv_meeting_id, sv_value)
    /\ sv_pc' = "built"
    /\ UNCHANGED <<sv_meeting_id, sv_value, sv_plain, sv_scope>>

DecodeScopedValue ==
    /\ sv_pc = "built"
    /\ sv_plain' = decode_scoped_value(sv_key)
    /\ sv_pc' = "decoded"
    /\ UNCHANGED <<sv_meeting_id, sv_value, sv_key, sv_scope>>

ExtractScopeFromValue ==
    /\ sv_pc = "decoded"
    /\ sv_scope' = extract_scope_from_value(sv_key)
    /\ sv_pc' = "extracted"
    /\ UNCHANGED <<sv_meeting_id, sv_value, sv_key, sv_plain>>

ScopedNext ==
    /\ BuildScopedValue \/ DecodeScopedValue \/ ExtractScopeFromValue
    /\ UNCHANGED notScopedVars

SpecScoped == ScopedInit /\ [][ScopedNext]_vars

\* The document ids and texts for which the round trip is exact: the id holds no
\* separator and no ':' that could join the separator, the text is already
\* stripped.
RoundTripId(d) == d # <<>> /\ ~contains(d, SCOPED_VALUE_SEPARATOR) /\ d[Len(d)] # ":"
RoundTripText(p) == p # <<>> /\ strip(p) = p

\* C7 (as stated): for every non-empty document id d and non-empty text p,
\* decode_scoped_value(build_scoped_value(d, p)) = p and
\* extract_scope_from_value(build_scoped_value(d, p)) = d.
C7_RoundTripAsStated ==
    (sv_pc = "extracted" /\ sv_meeting_id # <<>> /\ sv_value # <<>>)
        => (sv_plain = sv_value /\ sv_scope = sv_meeting_id)

\* C7 (amended): for every non-empty document id d that holds no "::" and does
\* not end in ':' and every text p, with strip(p) non-empty, the decoded value is
\* strip(p) (p itself when p has no surrounding whitespace, also when p holds
\* "::"), and the extracted scope is d when d begins with "m_" and "" otherwise.
C7_RoundTrip ==
    (sv_pc = "extracted" /\ RoundTripId(sv_meeting_id) /\ strip(sv_value) # <<>>)
        => /\ sv_plain = strip(sv_value)
           /\ RoundTripText(sv_value) => sv_plain = sv_value
           /\ sv_scope = IF startswith(sv_meeting_id, <<"m", "_">>) THEN sv_meeting_id ELSE <<>>

\* C7 witness: an id beginning with "m_" and a text holding "::" went through
\* build, decode and extract.
C7_Witness ==
    /\ sv_pc = "extracted"
    /\ sv_meeting_id = <<"m", "_", "m">>
    /\ sv_value = <<"a", ":", ":">>
    /\ sv_plain = sv_value
    /\ sv_scope = sv_meeting_id

\* C8 (as stated): build_scoped_value("", p) = p for every p, and
\* build_scoped_value(d, "") = "" for every d.
C8_IdentityAsStated ==
    sv_pc # "input"
        => /\ sv_meeting_id = <<>> => sv_key = sv_value
           /\ sv_value = <<>> => sv_key = <<>>

\* C8 (amended): build_scoped_value("", p) = strip(p), which is p exactly when p
\* has no leading or trailing whitespace; build_scoped_value(d, "") = "".
C8_Identity ==
    sv_pc # "input"
        => /\ sv_meeting_id = <<>> => sv_key = strip(sv_value)
           /\ (sv_meeting_id = <<>> /\ strip(sv_value) = sv_value) => sv_key = sv_value
           /\ sv_value = <<>> => sv_key = <<>>

\* C8 witness: an empty id with a non-empty stripped text was encoded to itself.
C8_Witness ==
    /\ sv_pc = "built"
    /\ sv_meeting_id = <<>>
    /\ sv_value = <<"a", ":", "a">>
    /\ sv_key = sv_value


TransactionalOps == {"ingest_transcript", "ingest_data", "restore_graph_dump"}

\* C1: once a transactional ingestion call (ingest_transcript, ingest_data,
\* restore_graph_dump) has raised, the nodes and edges of every table are
\* exactly those visible before the call, wherever in the transaction the
\* failure happened.
C1_Atomic ==
    (st_last.op \in TransactionalOps /\ st_last.raised) => db = st_last.before

\* A two-segment transcript fails after statements of the transaction were
\* executed, on a store that already held data.
C1_Witness ==
    /\ st_last.op = "ingest_transcript"
    /\ st_last.raised
    /\ st_last.began
    /\ st_last.wrote
    /\ st_last.nsegs = 2
    /\ st_last.before # EmptyDb
    /\ db = st_last.before

\* C9: when the embeddings argument does not supply one embedding per segment
\* (None or empty with at least one segment, or a length different from the
\* number of segments), ingest_transcript raises and writes no node or edge,
\* so no Utterance is stored with a substituted vector.
C9_OneEmbeddingPerSegment ==
    (st_last.op = "ingest_transcript" /\ st_last.missing_embedding)
        => (st_last.raised /\ db = st_last.before)

\* embeddings is None for a two-segment transcript: the failure happens inside
\* the transaction, at the first segment.
C9_Witness ==
    /\ st_last.op = "ingest_transcript"
    /\ st_last.missing_embedding
    /\ st_last.began
    /\ st_last.nsegs = 2
    /\ st_last.raised
    /\ db = st_last.before

ProcessSteps == {"create_meeting", "ingest_transcript", "extract_raises", "ingest_data"}

\* C10: when process fails at create_meeting, ingest_transcript, extraction or
\* ingest_data, the caller receives an exception and the store holds no record
\* created for that document.
C10_NoPartialSideEffects ==
    (st_last.op = "process" /\ st_last.failed_step \in ProcessSteps)
        => (st_last.raised /\ db = st_last.before)


\* C2: at most one request at a time is inside its `async with lock` block for
\* any given normalized dataset id, whatever lock object each request obtained
\* from _get_chat_lock.
C2_MutualExclusion ==
    \A a, b \in DOMAIN sr_req :
        (a # b /\ sr_req[a].pc = "cs" /\ sr_req[b].pc = "cs") => sr_req[a].ds # sr_req[b].ds


\* The read-only checks on a query string: after whitespace normalization it
\* starts with MATCH, OPTIONAL MATCH or WITH; it contains no ';'; it contains
\* RETURN; it contains no deny-list keyword as a whole word, in any letter case.
PassesReadOnlyChecks(q) ==
    /\ \E p \in {KW_MATCH, KW_OPTIONAL \o <<" ">> \o KW_MATCH, KW_WITH} :
            startswith(upper(CollapseWhitespace(strip(q))), p)
    /\ ~contains(q, <<";">>)
    /\ contains(upper(q), KW_RETURN)
    /\ \A k \in DOMAIN FORBIDDEN_CYPHER_TOKENS : ~WordSearch(FORBIDDEN_CYPHER_TOKENS[k], upper(q))

\* C3 as stated: every query passed to execute_cypher satisfies all read-only
\* checks, and a generated query failing any check is never executed and
\* yields ok=false.
C3_ReadOnlyAsStated ==
    cy_pc = "done" =>
        /\ \A i \in DOMAIN cy_executed : PassesReadOnlyChecks(cy_executed[i])
        /\ (cy_generated # None /\ ~PassesReadOnlyChecks(cy_generated[1]))
                => (cy_executed = <<>> /\ ~cy_result.ok)

\* C3, amended: every query passed to execute_cypher satisfies all read-only
\* checks, and a generated query that still fails a check once its trailing
\* ';' characters are removed is never executed and yields ok=false.
C3_ReadOnly ==
    cy_pc = "done" =>
        /\ \A i \in DOMAIN cy_executed : PassesReadOnlyChecks(cy_executed[i])
        /\ (cy_generated # None /\ ~PassesReadOnlyChecks(RstripSemicolons(cy_generated[1])))
                => (cy_executed = <<>> /\ ~cy_result.ok)

\* A generated query that passes every check but the deny list, which it fails
\* on a lower-case whole word, was rejected.
C3_Witness ==
    /\ cy_pc = "done"
    /\ cy_generated # None
    /\ _validate_read_only_cypher_no_deny_list(cy_generated[1]).valid
    /\ WordSearch(<<"D", "E", "L", "E", "T", "E">>, upper(cy_generated[1]))
    /\ ~WordSearch(<<"D", "E", "L", "E", "T", "E">>, cy_generated[1])
    /\ cy_executed = <<>>
    /\ ~cy_result.ok


\* The router's model output is not a JSON object: invalid JSON, a JSON array,
\* number, null, string or boolean, or a content that is not a string.
NotAJsonObject(response) ==
    /\ ~response.raises
    /\ (response.content.ctype # "str" \/ response.content.text.kind # "object")

\* The content of the most recent Human message of a message list.
MostRecentHuman(msgs) ==
    LET humans == {i \in DOMAIN msgs : msgs[i].role = "human"}
    IN  IF humans = {} THEN ""
        ELSE msgs[CHOOSE i \in humans : \A j \in humans : j <= i].content

\* C4: for every router model output that is not a JSON object, router_node
\* does not raise, selects "hybrid_search" and sets tool_args to exactly
\* {"query": content of the most recent Human message}.
C4_RouterFallback ==
    (ag_router.ran /\ NotAJsonObject(ag_router.response)) =>
        /\ ~ag_router.raised
        /\ ag_state.tool_name = StrValue("hybrid_search")
        /\ ag_state.tool_args = DictArgs(Some(MostRecentHuman(ag_state.messages)))

\* The model answered with a JSON array in a turn whose history holds an
\* earlier Human message with another content.
C4_Witness ==
    /\ ag_router.ran
    /\ NotAJsonObject(ag_router.response)
    /\ ag_router.response.content.ctype = "str"
    /\ ag_router.response.content.text.kind = "list"
    /\ ag_history # <<>>
    /\ Head(ag_history) = HumanMessage("a")
    /\ ag_state.tool_args = DictArgs(Some(ag_question))

\* C5: ToolRegistry.execute does not raise for any tool name the router can
\* emit and any handler behaviour; an unregistered name yields the 'unknown
\* tool' string without invoking a handler, a raising handler yields an error
\* string naming the tool.
C5_ExecuteNeverRaises ==
    ag_exec.ran =>
        /\ ~ag_exec.raised
        /\ ~(ag_exec.name.t = "str" /\ ag_exec.name.v \in REGISTERED_TOOLS)
                => (ag_exec.result.kind = "unknown_tool" /\ ~ag_exec.invoked)
        /\ (ag_exec.invoked /\ ag_exec.handler_raises)
                => (ag_exec.result.kind = "tool_error" /\ ag_exec.result.name = ag_exec.name)

\* C6: query returns a string and never raises to its caller, whichever step
\* of the turn fails.
C6_QueryReturnsString ==
    ag_pc = "Done" => (ag_outcome.kind = "returned" /\ ag_outcome.type = "str")


\* C11: running _initialize_schema any number of times on the same store
\* raises no error; after the second and later runs the set of tables equals
\* the set after the first run, and all rows that existed are unchanged.
C11_SchemaIdempotent ==
    /\ ~sc_last.raised
    /\ sc_runs >= 1 => sc_tables = sc_first
    /\ sc_runs = 1 => sc_first = NodeTables \cup RelTables
    /\ sc_runs >= 2 =>
            \A t \in NodeTables \cup RelTables : sc_last.rows_before[t] \subseteq db[t]

\* A later run on a database that holds the rows of an ingested document.
C11_Witness ==
    /\ sc_runs >= 2
    /\ sc_last.tables_before = NodeTables \cup RelTables
    /\ sc_last.rows_before # EmptyDb
    /\ sc_last.rows_before = db

\* C12 as stated: a generated query that contains ';' anywhere, a trailing ';'
\* included, is rejected with ok=false and is never executed.
C12_NoSeparatorAsStated ==
    (cy_pc = "done" /\ cy_generated # None /\ contains(cy_generated[1], <<";">>))
        => (~cy_result.ok /\ cy_executed = <<>>)

\* C12, amended: a generated query that still contains ';' once its trailing
\* ';' characters are removed is rejected with ok=false and is never executed.
C12_NoSeparator ==
    (cy_pc = "done" /\ cy_generated # None
            /\ contains(RstripSemicolons(cy_generated[1]), <<";">>))
        => (~cy_result.ok /\ cy_executed = <<>>)

\* A generated query with ';' between two pieces that passes every other
\* check was rejected for its separator.
C12_Witness ==
    /\ cy_pc = "done"
    /\ cy_generated # None
    /\ contains(RstripSemicolons(cy_generated[1]), <<";">>)
    /\ _validate_read_only_cypher_no_separator_check(cy_generated[1]).valid
    /\ cy_result.error = "Multiple statements are not allowed."
    /\ ~cy_result.ok
    /\ cy_executed = <<>>

\* The text LIMIT occurs in the query, in any letter case (hybrid_rag.py:141).
HasLimitText(q) == contains(upper(q), KW_LIMIT)

\* The generated query as cypher_search validates it: trailing ';' characters
\* and then surrounding whitespace removed (hybrid_rag.py:140).
Trimmed(q) == strip(RstripSemicolons(q))

\* min(max(h, 1), 200)
ClampHint(h) ==
    LET lo == IF h > 1 THEN h ELSE 1
    IN  IF lo < 200 THEN lo ELSE 200

\* C13 as stated: an accepted generated query without LIMIT is executed as the
\* query followed by " LIMIT n" with n = min(max(h, 1), 200) for every integer
\* hint h, so that 1 <= n <= 200 and n <= h when h >= 1; a query that has a
\* LIMIT is executed without a second one.
C13_RowLimitAsStated ==
    (cy_pc = "done" /\ cy_generated # None /\ cy_executed # <<>>) =>
        LET g == Trimmed(cy_generated[1])
            n == ClampHint(cy_limit)
        IN  /\ ~HasLimitText(g) =>
                    /\ cy_executed = <<g \o <<" ">> \o KW_LIMIT \o <<" ">> \o Str(n)>>
                    /\ 1 <= n /\ n <= 200
                    /\ cy_limit >= 1 => n <= cy_limit
            /\ HasLimitText(g) => cy_executed = <<g>>

\* C13, amended: the same with n = min(max(h', 1), 200), where h' is 20 when
\* the hint h is 0 and h otherwise.
C13_RowLimit ==
    (cy_pc = "done" /\ cy_generated # None /\ cy_executed # <<>>) =>
        LET g == Trimmed(cy_generated[1])
            n == ClampHint(IF cy_limit = 0 THEN 20 ELSE cy_limit)
        IN  /\ ~HasLimitText(g) =>
                    /\ cy_executed = <<g \o <<" ">> \o KW_LIMIT \o <<" ">> \o Str(n)>>
                    /\ 1 <= n /\ n <= 200
                    /\ cy_limit >= 1 => n <= cy_limit
            /\ HasLimitText(g) => cy_executed = <<g>>

\* A query without LIMIT was executed under a hint above the maximum, with
\* " LIMIT 200" appended.
C13_Witness ==
    /\ cy_pc = "done"
    /\ cy_generated # None
    /\ cy_limit > 200
    /\ ~HasLimitText(cy_generated[1])
    /\ cy_result.ok
    /\ cy_executed = <<Trimmed(cy_generated[1]) \o <<" ">> \o KW_LIMIT \o <<" ", "2", "0", "0">>>>

\* C14: cypher_search never raises.  When the translation step raised (the
\* model call failed or timed out, its output was not JSON or not a JSON
\* object), when the generated query is empty or fails the read-only checks,
\* and when execute_cypher raised, the result has ok = False, a non-empty
\* error and no rows; on these failures no statement reached the store except
\* a read-only one whose execution raised.
C14_StructuredFailure ==
    cy_pc = "done" =>
        /\ ~cy_result.raised
        /\ (\/ cy_fault # "none"
            \/ cy_generated = None
            \/ cy_generated = Some(<<>>)
            \/ ~PassesReadOnlyChecks(Trimmed(cy_generated[1])))
                => /\ ~cy_result.ok
                   /\ cy_result.error # ""
                   /\ cy_result.rows = "none"
                   /\ cy_fault # "execute" => cy_executed = <<>>
                   /\ \A i \in DOMAIN cy_executed : PassesReadOnlyChecks(cy_executed[i])

\* execute_cypher raised on an accepted query and the failure was returned.
C14_Witness ==
    /\ cy_pc = "done"
    /\ cy_fault = "execute"
    /\ cy_executed # <<>>
    /\ ~cy_result.raised
    /\ ~cy_result.ok
    /\ cy_result.error = "Cypher execution failed"
    /\ cy_result.rows = "none"

\* The stages of a turn in their order.
Stages == <<"router", "tool_executor", "synthesizer">>

\* The turn went through the whole graph and query returned the answer.
TurnCompleted == ag_pc = "Done" /\ ag_node = "END"

\* C15: in every turn the stages run in the order router, tool executor,
\* synthesizer, each at most once and none skipped; the tool executor runs only
\* after the router has set tool_name and tool_args, the synthesizer only after
\* the executor has set tool_result; a turn that completes ran all three, and
\* after the turn has ended no stage runs again.
C15_LinearPipeline ==
    /\ Len(ag_trace) <= Len(Stages)
    /\ ag_trace = SubSeq(Stages, 1, Len(ag_trace))
    /\ ag_pc = "Routed" => ag_trace = SubSeq(Stages, 1, 1)
    /\ ag_pc = "Executed" => ag_trace = SubSeq(Stages, 1, 2)
    /\ ag_pc = "Synthesized" => ag_trace = Stages
    /\ Len(ag_trace) >= 2 =>
            /\ ag_router.ran /\ ~ag_router.raised
            /\ ag_exec.ran /\ ag_exec.name = ag_state.tool_name
    /\ Len(ag_trace) >= 3 =>
            /\ ~ag_exec.raised
            /\ ag_state.tool_result = ag_exec.result
            /\ ag_state.tool_result # NoResult
    /\ TurnCompleted => ag_trace = Stages
    /\ ag_pc = "Done" => ~ENABLED AgentNext

\* A turn ran router, tool executor and synthesizer and returned its answer.
C15_Witness ==
    /\ TurnCompleted
    /\ ag_trace = Stages
    /\ ag_outcome.kind = "returned"
    /\ ag_outcome.text = ag_state.final_answer

\* C16: after a turn that completes, the history is the caller's history, then
\* the question, then exactly one assistant message whose content is the value
\* query returned; this holds for histories longer than both prompt windows.
C16_HistoryAppended ==
    TurnCompleted =>
        ag_state.messages =
            ag_history \o <<HumanMessage(ag_question), AIMessage(ag_outcome.text)>>

\* A turn completed on a history longer than the synthesizer's window.
C16_Witness ==
    /\ TurnCompleted
    /\ Len(ag_history) > MAX_HISTORY_MESSAGES
    /\ Len(ag_history) > MAX_ROUTER_MESSAGES
    /\ Len(ag_state.messages) = Len(ag_history) + 2

\* C17: restore_graph_dump does not fail because an embedding is missing, and
\* leaves no utterance without one: after a restore that no store fault
\* interrupted, every utterance record with an id is in the store with the
\* record's embedding when that is present and non-empty, and with
\* embedding_dim zeros otherwise.
C17_ZeroVectorSubstituted ==
    (st_last.op = "restore_graph_dump" /\ ~st_last.raised) =>
        \A i \in DOMAIN st_last.utterances :
            LET item == st_last.utterances[i]
            IN  item.id # None =>
                    \E u \in db.Utterance :
                        /\ u.id = item.id[1]
                        /\ Len(u.embedding) = embedding_dim
                        /\ IF item.embedding # None /\ item.embedding # Some(<<>>)
                           THEN u.embedding = item.embedding[1]
                           ELSE u.embedding = [k \in 1..embedding_dim |-> 0]

\* A dump with one embedding present and one missing was restored.
C17_Witness ==
    /\ st_last.op = "restore_graph_dump"
    /\ ~st_last.raised
    /\ \E i, j \in DOMAIN st_last.utterances :
        /\ st_last.utterances[i].embedding = None
        /\ st_last.utterances[j].embedding = Some(AVector)
    /\ \E u \in db.Utterance : u.embedding = ZeroVector
    /\ \E u \in db.Utterance : u.embedding = AVector

\* The fields of a meeting summary that the round trip is to preserve.
SummaryView(summary) ==
    IF ~summary.found THEN [found |-> FALSE]
    ELSE [found |-> TRUE, title |-> summary.title, date |-> summary.date,
          topics |-> summary.topics,
          tasks |-> {[description |-> t.description, deadline |-> t.deadline,
                      status |-> t.status, assignee |-> t.assignee] : t \in summary.tasks},
          decisions |-> summary.decisions,
          people |-> summary.people]

\* The store obtained by restoring an export of d into an empty store.
RoundTrip(d, include_embeddings) ==
    restore_graph_dump(EmptyDb, export_graph_dump(d, include_embeddings), 0)

\* C18: for every reachable store and for include_embeddings True and False,
\* restoring the export into an empty store succeeds and gives, for every
\* meeting, a summary equal to the original's on title, date, topics, tasks
\* (description, deadline, status, assignee), decisions and people.
C18_RoundTripSummary ==
    \A inc \in BOOLEAN :
        LET r == RoundTrip(db, inc)
        IN  /\ ~r.raised
            /\ \A m \in MeetingIds :
                    SummaryView(get_meeting_summary(r.db, m))
                        = SummaryView(get_meeting_summary(db, m))

\* A store whose meeting has topics, tasks, decisions and people, and that an
\* export without embeddings reproduces.
C18_Witness ==
    \E m \in MeetingIds :
        LET summary == get_meeting_summary(db, m)
        IN  /\ summary.found
            /\ summary.topics # {}
            /\ summary.tasks # {}
            /\ summary.decisions # {}
            /\ summary.people # {}
            /\ \E t \in summary.tasks : t.assignee # None
            /\ SummaryView(get_meeting_summary(RoundTrip(db, FALSE).db, m)) = SummaryView(summary)

\* The ids with which a scoped key splits back into id and text: no "::"
\* inside and no ':' at the end.
SplitsCleanly(meeting_id) ==
    /\ ~contains(meeting_id, SCOPED_VALUE_SEPARATOR)
    /\ meeting_id[Len(meeting_id)] # ":"

\* What C19 says of two documents a and b that ingested the plain title: two
\* Topic records, each with its document's summary and linked to no other
\* Meeting; a's meeting summary (which lists the topic when a's Meeting
\* existed at ingestion), and the entries of the structural topic search that
\* carry a's id, hold of this title only a's topic, reported under the plain
\* title.
NoCollision(a, b, title) ==
    LET key_a == a.id \o SCOPED_VALUE_SEPARATOR \o title
        key_b == b.id \o SCOPED_VALUE_SEPARATOR \o title
        in_summary == IF get_meeting_summary(db, a.id).found
                      THEN get_meeting_summary(db, a.id).topics ELSE {}
        in_search == {e \in get_all_topics(db, 20, <<>>) : e.meeting_id = a.id}
    IN  /\ key_a # key_b
        /\ [title |-> key_a, summary |-> a.summary] \in db.Topic
        /\ [title |-> key_b, summary |-> b.summary] \in db.Topic
        /\ \A m \in DocIds : <<m, key_a>> \in db.DISCUSSED => m = a.id
        /\ a.linked => \E e \in in_summary : e.id = key_a /\ e.title = title
        /\ \A e \in in_summary \cup in_search :
                /\ e.id # key_b
                /\ (e.id = key_a \/ e.title = title) =>
                        (e.id = key_a /\ e.title = title /\ e.summary = a.summary)

\* C19 as stated: for any two documents with distinct non-empty ids that
\* ingested a topic with the same plain title.
C19_NoCollisionAsStated ==
    \A a, b \in dc_ingested :
        (a.id # b.id /\ a.title = b.title) => NoCollision(a, b, a.title)

\* C19, amended: for any two such documents whose ids contain no "::" and do
\* not end in ':'.
C19_NoCollision ==
    \A a, b \in dc_ingested :
        (a.id # b.id /\ a.title = b.title /\ SplitsCleanly(a.id) /\ SplitsCleanly(b.id))
            => NoCollision(a, b, a.title)

\* Two documents with meetings ingested the same title, and the first one's
\* meeting summary lists its topic alone.
C19_Witness ==
    \E a, b \in dc_ingested :
        /\ a.id # b.id /\ a.title = b.title
        /\ SplitsCleanly(a.id) /\ SplitsCleanly(b.id)
        /\ get_meeting_summary(db, a.id).found
        /\ get_meeting_summary(db, b.id).found
        /\ Cardinality(get_meeting_summary(db, a.id).topics) = 1
        /\ Cardinality(get_meeting_summary(db, b.id).topics) = 1
        /\ Cardinality(db.Topic) = 2

\* The fields a patch may name, by node type.
PatchAllowList ==
    [Topic |-> {"summary"}, Task |-> {"deadline", "status"}, Person |-> {"role"},
     Meeting |-> {"title", "date", "source_file"}, Decision |-> {}]

\* The primary keys of a table's rows.
Keys(d, table) == {r[PK(table)] : r \in d[table]}

\* C20: a request that names a field outside the allow-list of its node type
\* (the primary key included) or an unsupported node type is rejected and the
\* store is as before; an accepted request leaves every table with the same
\* primary keys and the same number of rows, and every relationship as it was.
C20_PatchAllowList ==
    pt_last.status # 0 =>
        /\ (\/ pt_last.node_type \notin DOMAIN PatchAllowList
            \/ ~(pt_last.names \subseteq PatchAllowList[pt_last.node_type]))
                => (pt_last.status \in 400..499 /\ db = pt_last.before)
        /\ pt_last.status # 200 => db = pt_last.before
        /\ pt_last.status = 200 =>
                /\ \A t \in NodeTables :
                        /\ Keys(db, t) = Keys(pt_last.before, t)
                        /\ Cardinality(db[t]) = Cardinality(pt_last.before[t])
                /\ \A t \in RelTables : db[t] = pt_last.before[t]

\* A request naming the primary key of a stored Topic was rejected with 400.
C20_Witness ==
    /\ pt_last.status = 400
    /\ pt_last.node_type = "Topic"
    /\ pt_last.names = {"summary", "title"}
    /\ pt_last.before.Topic # {}
    /\ db = pt_last.before

\* The result groups of the last fusion search.
Groups == tl_last.result.groups

\* C21: hybrid_search returns normally whenever the embedding model encodes the
\* query, whatever the query and the store; its merged_context is the
\* no-result text exactly when every result group is empty, and otherwise has
\* one section for each group that is not empty, in the order utterances,
\* topics, entities, entity relations, tasks, decisions, people, meetings.
C21_FusionNeverRaises ==
    (tl_last.op = "hybrid_search" /\ ~tl_last.encode_raises) =>
        /\ ~tl_last.result.raised
        /\ (tl_last.result.merged_context = NoSearchResult)
                <=> (\A i \in 1..8 : Groups[i] = {})
        /\ (\E i \in 1..8 : Groups[i] # {}) =>
                LET mc == tl_last.result.merged_context
                    present == {i \in 1..8 : Groups[i] # {}}
                IN  /\ Len(mc) = Cardinality(present)
                    /\ \A i \in present : \E k \in 1..Len(mc) :
                            mc[k].heading = SectionOrder[i] /\ mc[k].items = Groups[i]
                    /\ \A k \in 1..Len(mc), l \in 1..Len(mc) :
                            k < l => \E i \in present, j \in present :
                                /\ i < j
                                /\ mc[k].heading = SectionOrder[i]
                                /\ mc[l].heading = SectionOrder[j]
                    /\ Groups[1] # {} => mc[1].heading = SectionOrder[1]

\* A blank query on the empty store returned the no-result text.
C21_Witness ==
    /\ tl_last.op = "hybrid_search"
    /\ tl_last.query = Some(<<" ">>)
    /\ tl_last.before = EmptyDb
    /\ ~tl_last.encode_raises
    /\ ~tl_last.result.raised
    /\ tl_last.result.merged_context = NoSearchResult

\* C22: whatever the interleaving of the threads in get_embedder, at most one
\* instance is constructed for a model name, every caller that returned holds
\* the instance the cache holds for its model name (so all callers of a name
\* hold the same one), and that instance was constructed and stored in the
\* cache before the caller returned.
C22_SingleInstance ==
    /\ \A n \in ModelNames : Cardinality(em_built[n]) <= 1
    /\ \A t \in Threads :
        At(t, "done") =>
            /\ em_ret[t] # 0
            /\ em_ret[t] = em_cache[em_arg[t]]
            /\ em_ret[t] \in em_built[em_arg[t]]
    /\ \A t \in Threads, u \in Threads :
        (At(t, "done") /\ At(u, "done") /\ em_arg[t] = em_arg[u]) => em_ret[t] = em_ret[u]

\* A thread passed the first test with the cache empty and reached the test
\* under the lock after another thread had stored the instance and returned.
C22_Witness ==
    \E t \in Threads, u \in Threads :
        /\ t # u
        /\ em_arg[t] = em_arg[u]
        /\ At(t, "done")
        /\ At(u, "second_check")
        /\ em_cache[em_arg[u]] # 0

\* C23: the registered hybrid_search tool, run through the registry with a
\* query, with or without search_hints, while the embedding model and the
\* store work, returns the merged context of the fusion search on that query
\* and never the tool-execution-error string.
C23_HybridToolReturnsContext ==
    (/\ tl_last.op = "execute"
     /\ tl_last.name = "hybrid_search"
     /\ ~tl_last.env.encode_raises
     /\ ~tl_last.env.query_raises)
        => /\ tl_last.out.kind = "merged_context"
           /\ tl_last.out.context =
                HybridRAG_hybrid_search(tl_last.before, strip(QueryArg(tl_last.args)), 5, 8,
                                        FALSE, FALSE).merged_context

\* C30: executing a tool through the registry, whatever its name, its
\* arguments, the query the language model generates and the failures of the
\* embedding model and the store, leaves every node and edge table as it was;
\* draft_email returns a draft-request payload or the error string.
C30_ToolsReadOnly ==
    tl_last.op = "execute" =>
        /\ db = tl_last.before
        /\ tl_last.name = "draft_email"
                => tl_last.out.kind \in {"email_draft_request", "tool execution error"}

\* search_by_cypher, given a generated query with a delete clause, reported a
\* failure on the populated store.
C30_Witness ==
    /\ tl_last.op = "execute"
    /\ tl_last.name = "search_by_cypher"
    /\ tl_last.args.query = Some(<<"a">>)
    /\ tl_last.env.generated # None
    /\ WordSearch(<<"D", "E", "L", "E", "T", "E">>, upper(tl_last.env.generated[1]))
    /\ tl_last.out.kind = "cypher failed"
    /\ tl_last.before = SampleStore
    /\ db = SampleStore

\* C24 (as stated): across any sequence of ingest_transcript calls, two segments
\* that differ in document (documents ingested without a document id included),
\* in position or in start time receive different utterance ids.
C24_UniqueAsStated ==
    \A a \in ig_made : \A b \in ig_made :
        (a.doc # b.doc \/ a.i # b.i \/ a.ms # b.ms) => a.id # b.id

\* C24 (amended): two segments receive different utterance ids when they differ
\* in scope (the document id, or the one scope 'global' that all documents
\* ingested without a document id share), in position, or in start time in
\* whole milliseconds; then no ingestion writes to an utterance of another scope.
C24_UniqueIds ==
    /\ \A a \in ig_made : \A b \in ig_made :
        (Scope(a.doc[1]) # Scope(b.doc[1]) \/ a.i # b.i \/ a.ms # b.ms) => a.id # b.id
    /\ (ig_last.op \in {"ingest_transcript", "process"} /\ ~ig_last.raised) =>
        \A u \in ig_last.before["Utterance"] :
            ScopeOf(u.id) # Scope(ig_last.meeting_id) =>
                /\ u \in db["Utterance"]
                /\ \A rel \in {"SPOKE", "NEXT", "CONTAINS"} :
                    {e \in db[rel] : e[2] = u.id} = {e \in ig_last.before[rel] : e[2] = u.id}
                /\ {e \in db["NEXT"] : e[1] = u.id} = {e \in ig_last.before["NEXT"] : e[1] = u.id}

\* Two documents under different ids were ingested, and a segment of one has the
\* position and the start of a segment of the other.
C24_Witness ==
    /\ ig_last.op = "ingest_transcript" /\ ~ig_last.raised
    /\ \E a \in ig_made : \E b \in ig_made :
        /\ a.doc[1] # <<>> /\ b.doc[1] # <<>> /\ a.doc # b.doc
        /\ a.i = b.i /\ a.ms = b.ms
        /\ a.id # b.id

\* The utterance ids of the segments of the last call, by position (0-based).
LastIds == [i \in 0..(Len(ig_last.segments) - 1) |->
                u_id(ig_last.meeting_id, i, ig_last.segments[i + 1].start)]

\* The NEXT edges that touch an utterance of the last call are exactly
\* u_i -> u_(i+1), and each u_i has the SPOKE edge from its speaker.
LinearChain ==
    LET n == Len(ig_last.segments)
        U == {LastIds[i] : i \in 0..(n - 1)}
    IN  /\ {e \in db["NEXT"] : e[1] \in U \/ e[2] \in U}
                = {<<LastIds[i], LastIds[i + 1]>> : i \in 0..(n - 2)}
        /\ \A i \in 0..(n - 1) :
            /\ HasNode(db, "Utterance", LastIds[i])
            /\ HasNode(db, "Person", SpeakerOf(ig_last.segments[i + 1]))
            /\ <<SpeakerOf(ig_last.segments[i + 1]), LastIds[i]>> \in db["SPOKE"]

\* No utterance of the scope of the last call was stored before the call.
FreshScope ==
    \A u \in ig_last.before["Utterance"] : ScopeOf(u.id) # Scope(ig_last.meeting_id)

\* C25 (as stated): after a successful ingest_transcript of n segments for a
\* document, the NEXT edges among the document's utterances are exactly
\* u_i -> u_(i+1), a single chain with no branch, no cycle and no edge to another
\* document's utterance, and each u_i has a SPOKE edge from its speaker's Person.
C25_LinearChainAsStated ==
    (ig_last.op \in {"ingest_transcript", "process"} /\ ~ig_last.raised) => LinearChain

\* C25 (amended): the same, for a document ingested into a scope (its id, or
\* 'global' for a document without id) that held no utterance before the call.
C25_LinearChain ==
    (ig_last.op \in {"ingest_transcript", "process"} /\ ~ig_last.raised /\ FreshScope)
        => LinearChain

\* A transcript of two segments was ingested into a fresh scope of a store that
\* already holds another document's utterances.
C25_Witness ==
    /\ ig_last.op = "ingest_transcript" /\ ~ig_last.raised /\ FreshScope
    /\ Len(ig_last.segments) = 2
    /\ ig_last.before["Utterance"] # {}
    /\ <<LastIds[0], LastIds[1]>> \in db["NEXT"]

\* The edge that links a child record of a table to its Meeting.
MeetingEdge(table) ==
    CASE table = "Utterance" -> "CONTAINS"
      [] table = "Topic" -> "DISCUSSED"
      [] table = "Task" -> "HAS_TASK"
      [] table = "Decision" -> "HAS_DECISION"
      [] table = "Entity" -> "HAS_ENTITY"

\* The statements the last call ran.
LastStatements ==
    (IF ig_last.op \in {"ingest_transcript", "process"}
     THEN TranscriptStatements(ig_last.segments, Some(embed(ig_last.segments)),
                               ig_last.meeting_id, Len(ig_last.segments))
     ELSE <<>>)
    \o (IF ig_last.op \in {"ingest_data", "process"}
        THEN DataStatements(ig_last.payload, ig_last.meeting_id)
        ELSE <<>>)

\* The child records the last call ingested, as <<table, key>>.
LastChildren ==
    {<<LastStatements[k].table, LastStatements[k].row[PK(LastStatements[k].table)]>> :
        k \in {j \in 1..Len(LastStatements) :
                /\ LastStatements[j].op = "MERGE_ON_CREATE"
                /\ LastStatements[j].table \in
                        {"Utterance", "Topic", "Task", "Decision", "Entity"}}}

C27_IngestDataIdempotent ==
    (ig_last.op = "ingest_data" /\ ~ig_last.raised)
        => ingest_data(db, ig_last.payload, ig_last.meeting_id, 0).db = db

\* C28: the status stored on every Task node is exactly one of pending,
\* in_progress, done, blocked, after ingestion and after any accepted
\* PATCH /nodes/update; a patch whose status value is not exactly one of the
\* four is rejected without changing the task.
C28_TaskStatusAllowed ==
    \A t \in db["Task"] : t.status \in ALLOWED_TASK_STATUSES

\* C29: once a reset (DELETE /chats/{id}) of a dataset has completed and no
\* create-chat, analyze or graph-import request for it has been handled since,
\* the dataset's store does not exist, in every interleaving: a request that
\* passed its existence check before the reset took the lock fails or reports
\* not-found rather than re-creating the store.
C29_NoStoreAfterReset ==
    \A ds \in DOMAIN sr_reset : sr_reset[ds] => ~sr_exists[ds]

====
